---- MODULE Spec2Model ----
(***************************************************************************)
(* typed-environment: the TypedEnv class of src/src/index.ts (the second,  *)
(* later definition in the file, lines 461-853), modelled as a state       *)
(* machine over one instance.                                              *)
(*                                                                         *)
(* JavaScript strings are sequences of one-character strings, so that      *)
(* trim, toLowerCase, Number(), length and RegExp.test are computed and    *)
(* not looked up.  JavaScript values carry a type tag.                     *)
(***************************************************************************)
EXTENDS Integers, Sequences, FiniteSets, TLC

(***************************************************************************)
(* Bounds of the model.                                                    *)
(***************************************************************************)
\* longest schema (number of declared fields) that is enumerated
MaxFields == 2
\* largest numeric bound (min, max, minLength, maxLength) that is enumerated
MaxLimit == 2

(***************************************************************************)
(* JavaScript values.                                                      *)
(***************************************************************************)
Undefined == [t |-> "undefined", s |-> <<>>, n |-> 0, b |-> FALSE]
\* a property that was never assigned (reads as undefined)
NoEntry == [t |-> "none", s |-> <<>>, n |-> 0, b |-> FALSE]
NaNV == [t |-> "nan", s |-> <<>>, n |-> 0, b |-> FALSE]
StrV(str) == [t |-> "string", s |-> str, n |-> 0, b |-> FALSE]
NumV(num) == [t |-> "number", s |-> <<>>, n |-> num, b |-> FALSE]
BoolV(bool) == [t |-> "boolean", s |-> <<>>, n |-> 0, b |-> bool]

\* obj[key]: a property that was never assigned reads as undefined
Read(obj, key) == IF obj[key] = NoEntry THEN Undefined ELSE obj[key]

\* a === b (NaN is not equal to itself)
StrictEquals(a, b) == a.t # "nan" /\ b.t # "nan" /\ a = b

\* ToBoolean(v): undefined, '', 0, NaN and false are falsy
Truthy(v) ==
  CASE v.t = "string" -> v.s # <<>>
    [] v.t = "number" -> v.n # 0
    [] v.t = "boolean" -> v.b
    [] OTHER -> FALSE

\* isNaN(v) for a value that is a number or undefined
IsNaN(v) == v.t = "nan" \/ v.t = "undefined"

(***************************************************************************)
(* JavaScript string operations.                                           *)
(***************************************************************************)
UpperLetters == <<"A","B","C","D","E","F","G","H","I","J","K","L","M",
                  "N","O","P","Q","R","S","T","U","V","W","X","Y","Z">>
LowerLetters == <<"a","b","c","d","e","f","g","h","i","j","k","l","m",
                  "n","o","p","q","r","s","t","u","v","w","x","y","z">>
Digits == <<"0","1","2","3","4","5","6","7","8","9">>

\* the position of character c in the sequence chars, 0 when it is not there
PosIn(c, chars) ==
  IF \E i \in 1..Len(chars) : chars[i] = c
  THEN CHOOSE i \in 1..Len(chars) : chars[i] = c
  ELSE 0

LowerChar(c) == IF PosIn(c, UpperLetters) = 0 THEN c
                ELSE LowerLetters[PosIn(c, UpperLetters)]

\* String.prototype.toLowerCase
ToLowerCase(str) == [i \in 1..Len(str) |-> LowerChar(str[i])]

IsWhiteSpace(c) == c = " "

RECURSIVE TrimStart(_)
TrimStart(str) ==
  IF str # <<>> /\ IsWhiteSpace(Head(str)) THEN TrimStart(Tail(str)) ELSE str

RECURSIVE TrimEnd(_)
TrimEnd(str) ==
  IF str # <<>> /\ IsWhiteSpace(str[Len(str)])
  THEN TrimEnd(SubSeq(str, 1, Len(str) - 1))
  ELSE str

\* String.prototype.trim
Trim(str) == TrimEnd(TrimStart(str))

IsDigit(c) == PosIn(c, Digits) # 0
DigitValue(c) == PosIn(c, Digits) - 1

AllDigits(str) == str # <<>> /\ \A i \in 1..Len(str) : IsDigit(str[i])

RECURSIVE DecimalValue(_)
DecimalValue(str) ==
  IF str = <<>> THEN 0
  ELSE 10 * DecimalValue(SubSeq(str, 1, Len(str) - 1))
       + DigitValue(str[Len(str)])

\* +Infinity and -Infinity (sign is 1 or -1)
InfV(sign) == [t |-> "infinity", s |-> <<>>, n |-> sign, b |-> FALSE]

\* a number that is not an integer: mantissa / 10^places, where the mantissa
\* does not end in 0 and places is in 1..9.  (The fields of the model that
\* declare min, max or a validator receive integers only.)
FracV(mantissa, places) ==
  [t |-> "number", s |-> <<Digits[places + 1]>>, n |-> mantissa, b |-> FALSE]

RECURSIVE Pow10(_)
Pow10(k) == IF k = 0 THEN 1 ELSE 10 * Pow10(k - 1)

\* the number mantissa / 10^places as a value (places may be negative)
RECURSIVE ScaledValue(_, _)
ScaledValue(mantissa, places) ==
  IF mantissa = 0 THEN NumV(0)
  ELSE IF places <= 0 THEN NumV(mantissa * Pow10(0 - places))
  ELSE IF mantissa % 10 = 0 THEN ScaledValue(mantissa \div 10, places - 1)
  ELSE FracV(mantissa, places)

\* the position of the first character of str that is in chars, 0 if none
FirstOf(str, chars) ==
  IF \E i \in 1..Len(str) : str[i] \in chars
  THEN CHOOSE i \in 1..Len(str) :
         /\ str[i] \in chars
         /\ \A j \in 1..(i - 1) : str[j] \notin chars
  ELSE 0

Str_Infinity == <<"I","n","f","i","n","i","t","y">>

\* the text before and after position p of str (all and nothing when p = 0)
Before(str, p) == IF p = 0 THEN str ELSE SubSeq(str, 1, p - 1)
After(str, p) == IF p = 0 THEN <<>> ELSE SubSeq(str, p + 1, Len(str))

DigitsOrEmpty(str) == \A i \in 1..Len(str) : IsDigit(str[i])

\* an exponent: digits after an optional sign
Unsigned(str) == IF str # <<>> /\ Head(str) \in {"+", "-"} THEN Tail(str) ELSE str
SignedDecimalValue(str) ==
  IF str # <<>> /\ Head(str) = "-" THEN 0 - DecimalValue(Tail(str))
  ELSE DecimalValue(Unsigned(str))

\* the value of the literal with integer digits int, fraction digits frac
\* and, when hasExpo, exponent expo; NaNV when the parts are malformed
DecimalOf(int, frac, hasExpo, expo) ==
  IF /\ DigitsOrEmpty(int) /\ DigitsOrEmpty(frac)
     /\ int \o frac # <<>>
     /\ (hasExpo => AllDigits(Unsigned(expo)))
  THEN ScaledValue(DecimalValue(int \o frac),
                   Len(frac) - (IF hasExpo THEN SignedDecimalValue(expo) ELSE 0))
  ELSE NaNV

DecimalParts(mant, hasExpo, expo) ==
  DecimalOf(Before(mant, FirstOf(mant, {"."})),
            After(mant, FirstOf(mant, {"."})), hasExpo, expo)

\* an unsigned decimal literal: digits with an optional fraction and an
\* optional exponent ("12", "0.5", ".5", "5.", "1e3", "2E-1"); NaNV when the
\* text is not one
UnsignedDecimal(str) ==
  DecimalParts(Before(str, FirstOf(str, {"e", "E"})),
               FirstOf(str, {"e", "E"}) # 0,
               After(str, FirstOf(str, {"e", "E"})))

\* -v for a number, an infinity or NaN
Negate(v) == IF v.t = "nan" THEN v ELSE [v EXCEPT !.n = 0 - v.n]

\* Number(str), the StringToNumber conversion: surrounding white space is
\* ignored, the empty string is 0, an optionally signed "Infinity" is an
\* infinity, an optionally signed decimal literal is its value, and any other
\* text is NaN.  (Hexadecimal, octal and binary literals and exponents beyond
\* the range of a double do not occur among the strings of this model.)
ToNumber(str) ==
  LET t == Trim(str)
      signed == t # <<>> /\ Head(t) \in {"+", "-"}
      body == IF signed THEN Tail(t) ELSE t
      magnitude == IF body = Str_Infinity THEN InfV(1) ELSE UnsignedDecimal(body)
  IN  IF t = <<>> THEN NumV(0)
      ELSE IF signed /\ Head(t) = "-" THEN Negate(magnitude)
      ELSE magnitude

\* isFinite(v) for a value that is a number, an infinity or NaN
IsFinite(v) == v.t = "number"

(***************************************************************************)
(* Schema fields (BaseField of src/src/types/index.ts).  An optional       *)
(* property that is not given is Undefined; `choices` is a sequence of     *)
(* values when hasChoices holds.                                           *)
(***************************************************************************)
Str_true == <<"t","r","u","e">>
Str_false == <<"f","a","l","s","e">>

\* the regular expressions a schema of the model may use
PatternLowerWord == "^[a-z]+$"

IsLowerLetter(c) == PosIn(c, LowerLetters) # 0

\* RegExp.prototype.test for the patterns of the model
RegExpTest(pattern, str) ==
  CASE pattern = PatternLowerWord ->
         str # <<>> /\ \A i \in 1..Len(str) : IsLowerLetter(str[i])
    [] OTHER -> TRUE

\* the custom validators a schema of the model may use, after those of the
\* repository's tests: value => !value.includes('b'), value => value % 2 === 0,
\* value => value === true
ApplyValidator(name, v) ==
  CASE name = "excludesB" -> \A i \in 1..Len(v.s) : v.s[i] # "b"
    [] name = "isEven" -> v.n % 2 = 0
    [] name = "isTrue" -> v.b
    [] OTHER -> TRUE

NoError == "none"

(***************************************************************************)
(* The parsing and validation engine.  A step that throws names the error  *)
(* in `err`; the object written to is returned in `parsed`.                *)
(***************************************************************************)

\* an assignment that a frozen object does not stop
AssignParsed_writesFrozen(parsed, frozen, key, v) ==
  [err |-> NoError, parsed |-> [parsed EXCEPT ![key] = v]]

\* this.parsedEnvironment[key] = v, in the strict-mode code of a class body:
\* an assignment to a frozen object throws TypeError
AssignParsed(parsed, frozen, key, v) ==
  IF frozen THEN [err |-> "TypeError", parsed |-> parsed]
  ELSE [err |-> NoError, parsed |-> [parsed EXCEPT ![key] = v]]

\* validateRequiredField that takes an empty raw value for an absent one
validateRequiredField_emptyIsAbsent(field, value) ==
  ~Truthy(value) /\ field.required /\ field.default = Undefined

\* validateRequiredField that overlooks the default
validateRequiredField_ignoresDefault(field, value) ==
  value = Undefined /\ field.required

\* validateRequiredField that never throws
validateRequiredField_never(field, value) == FALSE

\* validateRequiredField: TRUE when it throws MissingRequiredFieldError
validateRequiredField(field, value) ==
  value = Undefined /\ field.required /\ field.default = Undefined

\* parseString that prefers the default to the raw value
parseString_defaultFirst(key, field, value, parsed, frozen) ==
  AssignParsed(parsed, frozen, key,
               IF field.default # Undefined THEN field.default ELSE value)

\* parseString that leaves alone a key that already has an entry
parseString_keepsEntry(key, field, value, parsed, frozen) ==
  AssignParsed(parsed, frozen, key,
               IF parsed[key] # NoEntry THEN parsed[key]
               ELSE IF value # Undefined THEN value ELSE field.default)

parseString(key, field, value, parsed, frozen) ==
  AssignParsed(parsed, frozen, key,
               IF value # Undefined THEN value ELSE field.default)

\* parseNumber that stores the converted value before it tests it
parseNumber_writesFirst(key, field, value, parsed, frozen) ==
  LET numValue == IF value # Undefined THEN ToNumber(value.s) ELSE field.default
      set == AssignParsed(parsed, frozen, key, numValue)
  IN  IF set.err = NoError /\ numValue # Undefined /\ IsNaN(numValue)
      THEN [err |-> "InvalidTypeError", parsed |-> set.parsed]
      ELSE set

parseNumber(key, field, value, parsed, frozen) ==
  LET numValue == IF value # Undefined THEN ToNumber(value.s) ELSE field.default
  IN  IF numValue # Undefined /\ IsNaN(numValue)
      THEN [err |-> "InvalidTypeError", parsed |-> parsed]
      ELSE AssignParsed(parsed, frozen, key, numValue)

\* isBooleanValue that also accepts yes/no/1/0
isBooleanValue_extended(str) ==
  LET lowerValue == ToLowerCase(Trim(str))
  IN  lowerValue \in {Str_true, Str_false, <<"y","e","s">>, <<"n","o">>,
                      <<"1">>, <<"0">>}

isBooleanValue(str) ==
  LET lowerValue == ToLowerCase(Trim(str))
  IN  lowerValue = Str_true \/ lowerValue = Str_false

convertToBoolean(str) == Trim(ToLowerCase(str)) = Str_true

parseBoolean(key, field, value, parsed, frozen) ==
  IF Truthy(value) /\ ~isBooleanValue(value.s)
  THEN [err |-> "InvalidBooleanError", parsed |-> parsed]
  ELSE AssignParsed(parsed, frozen, key,
                    IF value # Undefined THEN BoolV(convertToBoolean(value.s))
                    ELSE field.default)

parseAndSetValue(key, field, value, parsed, frozen) ==
  CASE field.type = "string" -> parseString(key, field, value, parsed, frozen)
    [] field.type = "number" -> parseNumber(key, field, value, parsed, frozen)
    [] field.type = "boolean" -> parseBoolean(key, field, value, parsed, frozen)
    [] OTHER -> [err |-> "UnsupportedTypeError", parsed |-> parsed]

\* Array.prototype.find(choice => choice === v): the first member that is
\* strictly equal to v, undefined when there is none
Find(choices, v) ==
  IF \E i \in 1..Len(choices) : StrictEquals(choices[i], v)
  THEN choices[CHOOSE i \in 1..Len(choices) :
                 /\ StrictEquals(choices[i], v)
                 /\ \A j \in 1..(i - 1) : ~StrictEquals(choices[j], v)]
  ELSE Undefined

\* validateEnumChoices: TRUE when it throws InvalidEnumError
validateEnumChoices(key, field, parsed) ==
  field.hasChoices /\ ~Truthy(Find(field.choices, Read(parsed, key)))

\* validateStringConstraints that tests the pattern before the length
validateStringConstraints_patternFirst(field, value) ==
  IF field.pattern # "none" /\ ~RegExpTest(field.pattern, value.s)
  THEN [err |-> "InvalidPatternError", check |-> "pattern"]
  ELSE IF field.minLength # Undefined /\ Len(value.s) < field.minLength.n
  THEN [err |-> "InvalidStringLengthError", check |-> "minLength"]
  ELSE IF field.maxLength # Undefined /\ Len(value.s) > field.maxLength.n
  THEN [err |-> "InvalidStringLengthError", check |-> "maxLength"]
  ELSE IF field.customValidator # "none"
          /\ ~ApplyValidator(field.customValidator, value)
  THEN [err |-> "CustomValidationError", check |-> "customValidator"]
  ELSE [err |-> NoError, check |-> "none"]

\* validateStringConstraints: the error it throws and the check that failed
validateStringConstraints(field, value) ==
  IF field.minLength # Undefined /\ Len(value.s) < field.minLength.n
  THEN [err |-> "InvalidStringLengthError", check |-> "minLength"]
  ELSE IF field.maxLength # Undefined /\ Len(value.s) > field.maxLength.n
  THEN [err |-> "InvalidStringLengthError", check |-> "maxLength"]
  ELSE IF field.pattern # "none" /\ ~RegExpTest(field.pattern, value.s)
  THEN [err |-> "InvalidPatternError", check |-> "pattern"]
  ELSE IF field.customValidator # "none"
          /\ ~ApplyValidator(field.customValidator, value)
  THEN [err |-> "CustomValidationError", check |-> "customValidator"]
  ELSE [err |-> NoError, check |-> "none"]

\* validateNumberConstraints with exclusive bounds
validateNumberConstraints_exclusive(field, value) ==
  IF field.min # Undefined /\ value.n <= field.min.n
  THEN [err |-> "InvalidNumberRangeError", check |-> "min"]
  ELSE IF field.max # Undefined /\ value.n >= field.max.n
  THEN [err |-> "InvalidNumberRangeError", check |-> "max"]
  ELSE IF field.customValidator # "none"
          /\ ~ApplyValidator(field.customValidator, value)
  THEN [err |-> "CustomValidationError", check |-> "customValidator"]
  ELSE [err |-> NoError, check |-> "none"]

validateNumberConstraints(field, value) ==
  IF field.min # Undefined /\ value.n < field.min.n
  THEN [err |-> "InvalidNumberRangeError", check |-> "min"]
  ELSE IF field.max # Undefined /\ value.n > field.max.n
  THEN [err |-> "InvalidNumberRangeError", check |-> "max"]
  ELSE IF field.customValidator # "none"
          /\ ~ApplyValidator(field.customValidator, value)
  THEN [err |-> "CustomValidationError", check |-> "customValidator"]
  ELSE [err |-> NoError, check |-> "none"]

validateBooleanConstraints(field, value) ==
  IF field.customValidator # "none"
     /\ ~ApplyValidator(field.customValidator, value)
  THEN [err |-> "CustomValidationError", check |-> "customValidator"]
  ELSE [err |-> NoError, check |-> "none"]

validateAdvancedConstraints(key, field, parsed) ==
  LET value == Read(parsed, key)
  IN  IF value = Undefined THEN [err |-> NoError, check |-> "none"]
      ELSE CASE field.type = "string" -> validateStringConstraints(field, value)
             [] field.type = "number" -> validateNumberConstraints(field, value)
             [] field.type = "boolean" -> validateBooleanConstraints(field, value)
             [] OTHER -> [err |-> NoError, check |-> "none"]

\* the body of the loop that checks choices and constraints only for a value
\* that came from the raw map, and takes a default as it is
ParseField_trustsDefault(key, field, value, parsed, frozen) ==
  IF validateRequiredField(field, value)
  THEN [err |-> "MissingRequiredFieldError", check |-> "required",
        parsed |-> parsed, steps |-> <<"validateRequiredField">>]
  ELSE
    LET set == parseAndSetValue(key, field, value, parsed, frozen)
    IN  IF set.err # NoError
        THEN [err |-> set.err, check |-> "coerce", parsed |-> set.parsed,
              steps |-> <<"validateRequiredField", "parseAndSetValue">>]
        ELSE IF value = Undefined
        THEN [err |-> NoError, check |-> "none", parsed |-> set.parsed,
              steps |-> <<"validateRequiredField", "parseAndSetValue">>]
        ELSE IF validateEnumChoices(key, field, set.parsed)
        THEN [err |-> "InvalidEnumError", check |-> "choices",
              parsed |-> set.parsed,
              steps |-> <<"validateRequiredField", "parseAndSetValue",
                          "validateEnumChoices">>]
        ELSE
          LET adv == validateAdvancedConstraints(key, field, set.parsed)
          IN  [err |-> adv.err, check |-> adv.check, parsed |-> set.parsed,
               steps |-> <<"validateRequiredField", "parseAndSetValue",
                           "validateEnumChoices",
                           "validateAdvancedConstraints">>]

\* the body of the loop of parse for one key: the four calls in their order.
\* `steps` lists the calls that were made, `check` the check that threw.
ParseField(key, field, value, parsed, frozen) ==
  IF validateRequiredField(field, value)
  THEN [err |-> "MissingRequiredFieldError", check |-> "required",
        parsed |-> parsed, steps |-> <<"validateRequiredField">>]
  ELSE
    LET set == parseAndSetValue(key, field, value, parsed, frozen)
    IN  IF set.err # NoError
        THEN [err |-> set.err, check |-> "coerce", parsed |-> set.parsed,
              steps |-> <<"validateRequiredField", "parseAndSetValue">>]
        ELSE IF validateEnumChoices(key, field, set.parsed)
        THEN [err |-> "InvalidEnumError", check |-> "choices",
              parsed |-> set.parsed,
              steps |-> <<"validateRequiredField", "parseAndSetValue",
                          "validateEnumChoices">>]
        ELSE
          LET adv == validateAdvancedConstraints(key, field, set.parsed)
          IN  [err |-> adv.err, check |-> adv.check, parsed |-> set.parsed,
               steps |-> <<"validateRequiredField", "parseAndSetValue",
                           "validateEnumChoices",
                           "validateAdvancedConstraints">>]

(***************************************************************************)
(* A schema is the sequence of its (key, field) entries in the order the   *)
(* object literal declares them; no key occurs twice.                      *)
(***************************************************************************)
DeclaredKeys(sch) == [i \in 1..Len(sch) |-> sch[i].key]

FieldOf(sch, key) == sch[CHOOSE i \in 1..Len(sch) : sch[i].key = key].field

\* a property name that is a canonical array index ("0", "7", "10")
IsArrayIndex(key) == AllDigits(key) /\ (Len(key) = 1 \/ Head(key) # "0")

\* the keys that are (wantIndex) or are not array indices, in their order
RECURSIVE SelectKeys(_, _)
SelectKeys(keys, wantIndex) ==
  IF keys = <<>> THEN <<>>
  ELSE IF IsArrayIndex(Head(keys)) = wantIndex
       THEN <<Head(keys)>> \o SelectKeys(Tail(keys), wantIndex)
       ELSE SelectKeys(Tail(keys), wantIndex)

\* array-index keys in ascending numeric order
RECURSIVE SortIndexKeys(_)
SortIndexKeys(keys) ==
  IF keys = <<>> THEN <<>>
  ELSE LET m == CHOOSE i \in 1..Len(keys) :
                  \A j \in 1..Len(keys) :
                    DecimalValue(keys[i]) <= DecimalValue(keys[j])
           rest == [j \in 1..(Len(keys) - 1) |->
                      IF j < m THEN keys[j] ELSE keys[j + 1]]
       IN  <<keys[m]>> \o SortIndexKeys(rest)

\* the order in which `for (const key in schema)` visits the keys of an
\* object: array-index keys first, in ascending numeric order, then the
\* other keys in the order they were created
ForInKeys(sch) ==
  SortIndexKeys(SelectKeys(DeclaredKeys(sch), TRUE))
    \o SelectKeys(DeclaredKeys(sch), FALSE)

\* parse(environment, schema): the loop over the keys, from position i on.
\* The result carries the error thrown (NoError when parse returns), the key
\* and check that threw, the parsed map as the call leaves it, and for each
\* key that was reached the calls that were made for it.
\* the loop of parse, had it gone on to the next key after a field threw
\* and reported the first error at the end
RECURSIVE ParseFrom_keepsGoing(_, _, _, _, _, _, _)
ParseFrom_keepsGoing(keys, i, env, sch, parsed, frozen, trace) ==
  IF i > Len(keys)
  THEN [err |-> NoError, errKey |-> <<>>, check |-> "none",
        parsed |-> parsed, trace |-> trace]
  ELSE LET key == keys[i]
           r == ParseField(key, FieldOf(sch, key), env[key], parsed, frozen)
           tr == Append(trace, [key |-> key, steps |-> r.steps])
           rest == ParseFrom_keepsGoing(keys, i + 1, env, sch, r.parsed,
                                        frozen, tr)
       IN  IF r.err # NoError
           THEN [err |-> r.err, errKey |-> key, check |-> r.check,
                 parsed |-> rest.parsed, trace |-> tr]
           ELSE rest

RECURSIVE ParseFrom(_, _, _, _, _, _, _)
ParseFrom(keys, i, env, sch, parsed, frozen, trace) ==
  IF i > Len(keys)
  THEN [err |-> NoError, errKey |-> <<>>, check |-> "none",
        parsed |-> parsed, trace |-> trace]
  ELSE LET key == keys[i]
           r == ParseField(key, FieldOf(sch, key), env[key], parsed, frozen)
           tr == Append(trace, [key |-> key, steps |-> r.steps])
       IN  IF r.err # NoError
           THEN [err |-> r.err, errKey |-> key, check |-> r.check,
                 parsed |-> r.parsed, trace |-> tr]
           ELSE ParseFrom(keys, i + 1, env, sch, r.parsed, frozen, tr)

parse(env, sch, parsed, frozen) ==
  ParseFrom(ForInKeys(sch), 1, env, sch, parsed, frozen, <<>>)

(***************************************************************************)
(* The line decoder and the type inference of configEnvironment.           *)
(***************************************************************************)
\* the position (from 1) of the first occurrence of character c in str,
\* 0 when there is none: String.prototype.indexOf, which counts from 0 and
\* answers -1
IndexOf(str, c) == FirstOf(str, {c})

\* String.prototype.startsWith / endsWith for a one-character argument
StartsWith(str, c) == str # <<>> /\ Head(str) = c
EndsWith(str, c) == str # <<>> /\ str[Len(str)] = c

\* value.slice(1, -1)
SliceInner(str) == SubSeq(str, 2, Len(str) - 1)

shouldSkipLine(line) == line = <<>> \/ StartsWith(line, "#")

isQuoted(value) ==
  \/ StartsWith(value, "\"") /\ EndsWith(value, "\"")
  \/ StartsWith(value, "'") /\ EndsWith(value, "'")

cleanupValue(value) == IF isQuoted(value) THEN SliceInner(value) ELSE value

NoPair == [pair |-> FALSE, key |-> <<>>, value |-> <<>>]

\* parseLine that splits at the last `=` of the line
parseLine_lastEquals(line) ==
  LET trimmed == Trim(line)
      equalsIndex ==
        IF IndexOf(trimmed, "=") = 0 THEN 0
        ELSE CHOOSE i \in 1..Len(trimmed) :
               /\ trimmed[i] = "="
               /\ \A j \in (i + 1)..Len(trimmed) : trimmed[j] # "="
  IN  IF shouldSkipLine(trimmed) \/ equalsIndex = 0 THEN NoPair
      ELSE [pair |-> TRUE,
            key |-> Trim(SubSeq(trimmed, 1, equalsIndex - 1)),
            value |-> cleanupValue(
                        Trim(SubSeq(trimmed, equalsIndex + 1, Len(trimmed))))]

\* parseLine: NoPair stands for null
parseLine(line) ==
  LET trimmed == Trim(line)
      equalsIndex == IndexOf(trimmed, "=")
  IN  IF shouldSkipLine(trimmed) THEN NoPair
      ELSE IF equalsIndex = 0 THEN NoPair
      ELSE [pair |-> TRUE,
            key |-> Trim(SubSeq(trimmed, 1, equalsIndex - 1)),
            value |-> cleanupValue(
                        Trim(SubSeq(trimmed, equalsIndex + 1, Len(trimmed))))]

\* isNumericValue without the test for a finite number
isNumericValue_noFiniteTest(value) ==
  IF Trim(value) = <<>> THEN FALSE ELSE ~IsNaN(ToNumber(value))

isNumericValue(value) ==
  IF Trim(value) = <<>> THEN FALSE
  ELSE LET numValue == ToNumber(value)
       IN  ~IsNaN(numValue) /\ IsFinite(numValue)

\* inferValueTypeWithQuoteInfo that looks at the content of a quoted value
inferValueTypeWithQuoteInfo_ignoresQuotes(value, wasQuoted) ==
  IF isBooleanValue(value) THEN "boolean"
  ELSE IF isNumericValue(value) THEN "number"
  ELSE "string"

inferValueTypeWithQuoteInfo(value, wasQuoted) ==
  IF wasQuoted THEN "string"
  ELSE IF isBooleanValue(value) THEN "boolean"
  ELSE IF isNumericValue(value) THEN "number"
  ELSE "string"

\* the field configEnvironment synthesizes: {type: inferredType, required: true}
InferredField(inferredType) ==
  [type |-> inferredType, required |-> TRUE, default |-> Undefined,
   hasChoices |-> FALSE, choices |-> <<>>,
   minLength |-> Undefined, maxLength |-> Undefined, pattern |-> "none",
   customValidator |-> "none", min |-> Undefined, max |-> Undefined]

\* inferredSchema[key] = field: a key that is there keeps its place
PutField(sch, key, field) ==
  IF \E i \in 1..Len(sch) : sch[i].key = key
  THEN [i \in 1..Len(sch) |->
          IF sch[i].key = key THEN [key |-> key, field |-> field] ELSE sch[i]]
  ELSE Append(sch, [key |-> key, field |-> field])

\* an assignment that leaves a key that is there as it is
PutRaw_keepsFirst(env, key, value) ==
  [k \in DOMAIN env \cup {key} |->
     IF k \in DOMAIN env THEN env[k] ELSE StrV(value)]

\* this.environment[key] = value (a map from the keys that were assigned)
PutRaw(env, key, value) ==
  [k \in DOMAIN env \cup {key} |-> IF k = key THEN StrV(value) ELSE env[k]]

\* the loop of configEnvironment over the lines, from line i on.  An
\* assignment to a frozen this.environment throws TypeError.
RECURSIVE ConfigFrom(_, _, _, _, _, _)
ConfigFrom(lines, i, inferSchema, env, envFrozen, inferredSchema) ==
  IF i > Len(lines)
  THEN [err |-> NoError, environment |-> env, schema |-> inferredSchema]
  ELSE
    LET line == lines[i]
        parsedLine == parseLine(line)
    IN  IF ~parsedLine.pair
        THEN ConfigFrom(lines, i + 1, inferSchema, env, envFrozen,
                        inferredSchema)
        ELSE IF envFrozen
        THEN [err |-> "TypeError", environment |-> env,
              schema |-> inferredSchema]
        ELSE
          LET rawValue == Trim(SubSeq(line, IndexOf(line, "=") + 1, Len(line)))
              wasQuoted == isQuoted(rawValue)
              inferredType ==
                inferValueTypeWithQuoteInfo(parsedLine.value, wasQuoted)
          IN  ConfigFrom(lines, i + 1, inferSchema,
                         PutRaw(env, parsedLine.key, parsedLine.value),
                         envFrozen,
                         IF inferSchema
                         THEN PutField(inferredSchema, parsedLine.key,
                                       InferredField(inferredType))
                         ELSE inferredSchema)

\* a raw map into which nothing has been loaded
EmptyLoaded == [k \in {} |-> Undefined]

\* configEnvironment that starts each file from an empty raw map
configEnvironment_replaces(f, inferSchema, env, envFrozen) ==
  IF ~f.exists
  THEN [err |-> NoError, environment |-> env, schema |-> <<>>]
  ELSE ConfigFrom(f.lines, 1, inferSchema, EmptyLoaded, envFrozen, <<>>)

\* configEnvironment that reads the file without testing that it exists:
\* readFileSync throws for a path that does not exist
configEnvironment_readsUnchecked(f, inferSchema, env, envFrozen) ==
  IF ~f.exists
  THEN [err |-> "ENOENT", environment |-> env, schema |-> <<>>]
  ELSE ConfigFrom(f.lines, 1, inferSchema, env, envFrozen, <<>>)

\* configEnvironment(filePath, inferSchema): a file that does not exist
\* leaves the environment as it is; the schema returned is `schema` when
\* inferSchema holds and null otherwise
configEnvironment(f, inferSchema, env, envFrozen) ==
  IF ~f.exists
  THEN [err |-> NoError, environment |-> env, schema |-> <<>>]
  ELSE ConfigFrom(f.lines, 1, inferSchema, env, envFrozen, <<>>)

(***************************************************************************)
(* The inputs that are enumerated: key names, raw values, schema fields.   *)
(***************************************************************************)
KeyA == <<"A">>
KeyB == <<"B">>
Key2 == <<"2">>
Key10 == <<"1","0">>
Keys == {KeyA, KeyB, Key2, Key10}

\* raw values of the environment map given to parse
RawStrings ==
  { <<>>, <<"0">>, <<"1">>, <<"2">>, <<"4","2">>,
    Str_true, <<"T","R","U","E">>, Str_false, <<" ">> \o Str_true,
    <<"y","e","s">>, <<"n","o">>,
    <<"a">>, <<"a","b">>, <<"a","b","c">> }

\* raw values given to schemas of several fields
OrderRawStrings == { <<"1">>, <<"a","b">> }

Field(type, required, default, hasChoices, choices, minLength, maxLength, pattern, customValidator, min, max) ==
  [type |-> type, required |-> required, default |-> default,
   hasChoices |-> hasChoices, choices |-> choices,
   minLength |-> minLength, maxLength |-> maxLength, pattern |-> pattern,
   customValidator |-> customValidator, min |-> min, max |-> max]

\* a `choices` property: absent, or a list of values
NoChoices == [has |-> FALSE, list |-> <<>>]
Choices(list) == [has |-> TRUE, list |-> list]

Limits == {Undefined} \cup {NumV(n) : n \in 1..MaxLimit}

StringFields ==
  { Field("string", r, d, c.has, c.list, Undefined, Undefined, "none", "none",
          Undefined, Undefined) :
      r \in BOOLEAN,
      d \in {Undefined, StrV(<<>>), StrV(<<"a","b">>)},
      c \in {NoChoices, Choices(<<>>), Choices(<<StrV(<<>>)>>),
             Choices(<<StrV(<<"a">>), StrV(<<"a","b">>)>>)} }
  \cup
  { Field("string", TRUE, d, c.has, c.list, mn, mx, p, cv,
          Undefined, Undefined) :
      d \in {Undefined, StrV(<<"a">>)},
      c \in {NoChoices, Choices(<<StrV(<<"a">>), StrV(<<"a","b">>)>>)},
      mn \in {Undefined, NumV(MaxLimit)},
      mx \in {Undefined, NumV(MaxLimit)},
      p \in {"none", PatternLowerWord},
      cv \in {"none", "excludesB"} }

NumberFields ==
  { Field("number", r, d, c.has, c.list, Undefined, Undefined, "none", "none",
          Undefined, Undefined) :
      r \in BOOLEAN,
      d \in {Undefined, NumV(0), NumV(2), NaNV},
      c \in {NoChoices, Choices(<<>>), Choices(<<NumV(0)>>),
             Choices(<<NumV(1), NumV(2)>>)} }
  \cup
  { Field("number", TRUE, d, c.has, c.list, Undefined, Undefined, "none", cv,
          mn, mx) :
      d \in {Undefined, NumV(0)},
      c \in {NoChoices, Choices(<<NumV(1), NumV(42)>>)},
      cv \in {"none", "isEven"},
      mn \in Limits,
      mx \in Limits }

BooleanFields ==
  { Field("boolean", r, d, c.has, c.list, Undefined, Undefined, "none", "none",
          Undefined, Undefined) :
      r \in BOOLEAN,
      d \in {Undefined, BoolV(TRUE), BoolV(FALSE)},
      c \in {NoChoices, Choices(<<>>), Choices(<<BoolV(TRUE)>>),
             Choices(<<BoolV(FALSE)>>),
             Choices(<<BoolV(TRUE), BoolV(FALSE)>>)} }
  \cup
  { Field("boolean", TRUE, d, c.has, c.list, Undefined, Undefined, "none",
          "isTrue", Undefined, Undefined) :
      d \in {Undefined, BoolV(FALSE)},
      c \in {NoChoices, Choices(<<BoolV(FALSE)>>)} }

\* a `type` outside 'string' | 'number' | 'boolean'
UnsupportedFields ==
  { Field("Object", r, d, FALSE, <<>>, Undefined, Undefined, "none", "none",
          Undefined, Undefined) :
      r \in BOOLEAN, d \in {Undefined, StrV(<<"a">>)} }

Fields == StringFields \cup NumberFields \cup BooleanFields
            \cup UnsupportedFields

\* the fields of the schemas that declare several keys
OrderFields ==
  { Field("string", TRUE, Undefined, FALSE, <<>>, NumV(2), Undefined,
          "none", "none", Undefined, Undefined),
    Field("number", TRUE, Undefined, FALSE, <<>>, Undefined, Undefined,
          "none", "none", Undefined, Undefined),
    Field("boolean", FALSE, BoolV(TRUE), FALSE, <<>>, Undefined, Undefined,
          "none", "none", Undefined, Undefined) }

\* declaration orders of the keys
KeyOrders ==
  { <<KeyA, KeyB, Key2, Key10>>, <<KeyB, KeyA, Key10, Key2>>,
    <<Key10, Key2, KeyB, KeyA>>, <<Key2, Key10, KeyA, KeyB>>,
    <<KeyB, Key10, KeyA, Key2>>, <<Key10, KeyA, Key2, KeyB>> }

\* sequences of n distinct keys: the first n keys of a declaration order
KeySeqs(n) == { SubSeq(ks, 1, n) : ks \in KeyOrders }

Schemas ==
  { <<[key |-> KeyA, field |-> f]>> : f \in Fields }
  \cup
  UNION { { [i \in 1..n |-> [key |-> ks[i], field |-> fs[i]]] :
              ks \in KeySeqs(n), fs \in [1..n -> OrderFields] } :
          n \in 2..MaxFields }

\* the raw maps given to parse: a raw string or nothing for each key of the
\* schema (parse reads no other key)
RawMaps(sch) ==
  LET raws == IF Len(sch) = 1 THEN RawStrings ELSE OrderRawStrings
      dk == {sch[i].key : i \in 1..Len(sch)}
  IN  { [k \in Keys |-> IF k \in dk THEN m[k] ELSE Undefined] :
          m \in [dk -> {Undefined} \cup {StrV(x) : x \in raws}] }

(***************************************************************************)
(* The .env files that are enumerated.  A file is the sequence of its      *)
(* lines (content.split(/\r?\n/)), or does not exist.                      *)
(***************************************************************************)
\* longest line among the lines enumerated over LineChars
MaxLineLen == 3

\* the characters of the lines that are enumerated exhaustively
LineChars == {"A", "1", "=", " ", "#", "\"", "'"}

\* every line of at most MaxLineLen characters of LineChars
ShortLines == UNION { [1..n -> LineChars] : n \in 0..MaxLineLen }

\* README, scenario 3: PORT=80  # Too low, should be 1000-65535
PortLine ==
  <<"P","O","R","T","=","8","0"," "," ","#"," ","T","o","o"," ","l","o","w",
    ","," ","s","h","o","u","l","d"," ","b","e"," ","1","0","0","0","-","6",
    "5","5","3","5">>
\* README, scenario 2: API_KEY=short_key  # Too short, needs 32-64 characters
ApiKeyLine ==
  <<"A","P","I","_","K","E","Y","=","s","h","o","r","t","_","k","e","y"," ",
    " ","#"," ","T","o","o"," ","s","h","o","r","t",","," ","n","e","e","d",
    "s"," ","3","2","-","6","4"," ","c","h","a","r","a","c","t","e","r","s">>
\* the keys of the README schema
KeyPORT ==
  <<"P","O","R","T">>
\* API_KEY
KeyAPI_KEY ==
  <<"A","P","I","_","K","E","Y">>

\* lines after those of the repository's tests and documentation
LongLines ==
  { <<"A","=","t","r","u","e">>,
    <<"A","=","T","R","U","E">>,
    <<"A","=","F","a","l","s","e">>,
    <<"A","=","y","e","s">>,
    <<"A","=","n","o">>,
    <<"A","=","0">>,
    <<"A","=","4","2">>,
    <<"A","=","0",".","5">>,
    <<"A","=","1","e","3">>,
    <<"A","=","-","1">>,
    <<"A","=","I","n","f","i","n","i","t","y">>,
    <<"A","=","-","I","n","f","i","n","i","t","y">>,
    <<"A","=","1","2",".","3","4",".","5","6">>,
    <<"A","=","1","2","3","a","b","c">>,
    <<"A","=","h","e","l","l","o">>,
    <<"A","=","\"","1","2","3","\"">>,
    <<"A","=","'","f","a","l","s","e","'">>,
    <<"A","=","\"","t","r","u","e","\"">>,
    <<"A","=","\"","4","5","6","\"">>,
    <<"A","=","\""," ","t","r","u","e","\"">>,
    <<"A","=","\"","a","'">>,
    <<"A","=","\"","\"","a","\"","\"">>,
    <<"A","=","\"","a","\"","b","\"">>,
    <<"A","=","'","a"," ","b","'">>,
    <<"A","=","b","=","c">>,
    <<" "," ","A"," ","="," ","1"," "," ">>,
    <<"#"," ","A","=","1">>,
    <<"A">>,
    <<"B","=","1">>,
    <<"B","=","\"","1","\"">>,
    <<"1","0","=","a">>,
    <<"A","=","2">>,
    PortLine, ApiKeyLine }

\* the lines of the files of two lines
PairLines ==
  { <<"A","=","1">>,
    <<"A","=","\"","1","\"">>,
    <<"A","=","t","r","u","e">>,
    <<"B","=","a">>,
    <<"1","0","=","a">>,
    <<"#"," ","c">>,
    <<"A","=","x">> }

MissingFile == [exists |-> FALSE, lines |-> <<>>]
FileOf(lines) == [exists |-> TRUE, lines |-> lines]

Files ==
  {MissingFile}
  \cup { FileOf(<<l>>) : l \in ShortLines \cup LongLines }
  \cup { FileOf(<<l1, l2>>) : l1 \in PairLines, l2 \in PairLines }

\* the limits of the README schema
PortMin == 1000
PortMax == 65535
ApiKeyMinLength == 32
ApiKeyMaxLength == 64

\* the schemas given to the constructor of an instance that reads a file
FileSchemas ==
  { <<[key |-> KeyA,
       field |-> Field("number", TRUE, Undefined, FALSE, <<>>, Undefined,
                       Undefined, "none", "none", Undefined, Undefined)]>>,
    <<[key |-> KeyA,
       field |-> Field("string", FALSE, Undefined, FALSE, <<>>, Undefined,
                       Undefined, "none", "none", Undefined, Undefined)]>>,
    <<[key |-> KeyPORT,
       field |-> Field("number", TRUE, Undefined, FALSE, <<>>, Undefined,
                       Undefined, "none", "none", NumV(PortMin),
                       NumV(PortMax))]>>,
    <<[key |-> KeyAPI_KEY,
       field |-> Field("string", TRUE, Undefined, FALSE, <<>>,
                       NumV(ApiKeyMinLength), NumV(ApiKeyMaxLength), "none",
                       "none", Undefined, Undefined)]>>,
    <<[key |-> KeyA,
       field |-> Field("string", TRUE, StrV(<<"d">>), FALSE, <<>>, Undefined,
                       Undefined, "none", "none", Undefined, Undefined)]>>,
    <<[key |-> KeyA,
       field |-> Field("number", FALSE, NumV(7), FALSE, <<>>, Undefined,
                       Undefined, "none", "none", Undefined, Undefined)],
      [key |-> KeyB,
       field |-> Field("boolean", TRUE, Undefined, FALSE, <<>>, Undefined,
                       Undefined, "none", "none", Undefined, Undefined)]>> }

\* new TypedEnv() and new TypedEnv(schema)
Instances ==
  {[hasSchema |-> FALSE, schema |-> <<>>]}
  \cup {[hasSchema |-> TRUE, schema |-> sch] : sch \in FileSchemas}

(***************************************************************************)
(* The state of one TypedEnv instance.                                     *)
(***************************************************************************)
VARIABLES
  schema,            \* this.schema (<<>> while it is null)
  hasSchema,         \* this.schema is not null
  environment,       \* this.environment
  parsedEnvironment, \* this.parsedEnvironment
  environmentFrozen, \* Object.freeze has been applied to this.environment
  parsedFrozen,      \* Object.freeze has been applied to this.parsedEnvironment
  frozenEnvironment,        \* this.frozenEnvironment
  frozenParsedEnvironment,  \* this.frozenParsedEnvironment
  file,              \* the .env file that configEnvironment and init read
  lastParse,         \* the last call of parse: its argument, the parsed map
                     \* it started from, and its outcome
  lastConfig,        \* the last call of configEnvironment and its outcome
  lastInit,          \* the last call of init and its outcome
  lastGet            \* the last call of a getter and what it returned

vars == <<schema, hasSchema, environment, parsedEnvironment, environmentFrozen,
          parsedFrozen, frozenEnvironment, frozenParsedEnvironment, file,
          lastParse, lastConfig, lastInit, lastGet>>

\* references: the two maps the instance owns, and null
Null == "null"
ObjEnvironment == "this.environment"
ObjParsedEnvironment == "this.parsedEnvironment"

\* Object.freeze that answers a frozen copy and leaves its argument alone
ObjectFreeze_copy(ref) == "a frozen copy"

\* Object.freeze(obj) returns the object it was given
ObjectFreeze(ref) == ref

NoCall ==
  [called |-> FALSE, env |-> [k \in Keys |-> Undefined], frozen |-> FALSE,
   before |-> [k \in Keys |-> NoEntry], err |-> NoError, errKey |-> <<>>, check |-> "none", trace |-> <<>>]

NoConfig == [called |-> FALSE, writable |-> FALSE, err |-> NoError]

NoInit ==
  [called |-> FALSE, writable |-> FALSE, completedBefore |-> FALSE,
   schemaFree |-> FALSE, stage |-> "none", err |-> NoError, errKey |-> <<>>,
   check |-> "none", returned |-> Null, before |-> <<>>]

NoGet ==
  [getter |-> "none", phase |-> "none", ref |-> Null, frozen |-> FALSE,
   environmentRefs |-> {}, parsedRefs |-> {}]

\* new TypedEnv(schema), for the calls of parse on given raw maps
Init ==
  /\ schema \in Schemas
  /\ hasSchema = TRUE
  /\ environment = [k \in Keys |-> Undefined]
  /\ parsedEnvironment = [k \in Keys |-> NoEntry]
  /\ environmentFrozen = FALSE
  /\ parsedFrozen = FALSE
  /\ frozenEnvironment = Null
  /\ frozenParsedEnvironment = Null
  /\ file = MissingFile
  /\ lastParse = NoCall
  /\ lastConfig = NoConfig
  /\ lastInit = NoInit
  /\ lastGet = NoGet

\* env.parse(rawMap, schema)
Parse(rawMap) ==
  \E r \in {parse(rawMap, schema, parsedEnvironment, parsedFrozen)} :
      /\ parsedEnvironment' = r.parsed
      /\ lastParse' = [called |-> TRUE, env |-> rawMap,
                       frozen |-> parsedFrozen,
                       before |-> parsedEnvironment, err |-> r.err,
                       errKey |-> r.errKey, check |-> r.check,
                       trace |-> r.trace]
      /\ UNCHANGED <<schema, hasSchema, environment, environmentFrozen,
                     parsedFrozen, frozenEnvironment, frozenParsedEnvironment,
                     file, lastConfig, lastInit, lastGet>>

\* where in the life of the instance a getter is called
Phase ==
  IF frozenParsedEnvironment # Null THEN "after init"
  ELSE IF lastConfig.called THEN "after configEnvironment"
  ELSE "before init"

\* env.getParsedEnvironment():
\* this.frozenParsedEnvironment || Object.freeze(this.parsedEnvironment)
GetParsedEnvironment ==
  LET ref == IF frozenParsedEnvironment # Null THEN frozenParsedEnvironment
             ELSE ObjectFreeze(ObjParsedEnvironment)
  IN  /\ parsedFrozen' = TRUE
      /\ lastGet' = [lastGet EXCEPT
                       !.getter = "getParsedEnvironment",
                       !.phase = Phase,
                       !.ref = ref,
                       !.frozen = (ref = ObjParsedEnvironment /\ parsedFrozen'),
                       !.parsedRefs =
                          IF frozenParsedEnvironment # Null
                          THEN @ \cup {ref} ELSE @]
      /\ UNCHANGED <<schema, hasSchema, environment, parsedEnvironment,
                     environmentFrozen, frozenEnvironment,
                     frozenParsedEnvironment, file, lastParse, lastConfig,
                     lastInit>>

\* env.getEnvironment():
\* this.frozenEnvironment || Object.freeze(this.environment)
GetEnvironment ==
  LET ref == IF frozenEnvironment # Null THEN frozenEnvironment
             ELSE ObjectFreeze(ObjEnvironment)
  IN  /\ environmentFrozen' = TRUE
      /\ lastGet' = [lastGet EXCEPT
                       !.getter = "getEnvironment",
                       !.phase = Phase,
                       !.ref = ref,
                       !.frozen = (ref = ObjEnvironment /\ environmentFrozen'),
                       !.environmentRefs =
                          IF frozenEnvironment # Null
                          THEN @ \cup {ref} ELSE @]
      /\ UNCHANGED <<schema, hasSchema, environment, parsedEnvironment,
                     parsedFrozen, frozenEnvironment, frozenParsedEnvironment,
                     file, lastParse, lastConfig, lastInit>>

Next ==
  \/ \E rawMap \in RawMaps(schema) : Parse(rawMap)
  \/ GetParsedEnvironment

Spec == Init /\ [][Next]_vars

(***************************************************************************)
(* The instance that reads a file: configEnvironment, init and the two     *)
(* getters.  The maps of such an instance are functions on the keys that   *)
(* have been assigned.                                                     *)
(***************************************************************************)
EmptyMap == [k \in {} |-> Undefined]

\* the map m on the keys ks as well, where a key it lacks holds v
Extend(m, ks, v) ==
  [k \in DOMAIN m \cup ks |-> IF k \in DOMAIN m THEN m[k] ELSE v]

\* new TypedEnv(schema) or new TypedEnv(), beside a file
FileInit ==
  /\ \E inst \in Instances :
        /\ schema = inst.schema
        /\ hasSchema = inst.hasSchema
  /\ file \in Files
  /\ environment = EmptyMap
  /\ parsedEnvironment = EmptyMap
  /\ environmentFrozen = FALSE
  /\ parsedFrozen = FALSE
  /\ frozenEnvironment = Null
  /\ frozenParsedEnvironment = Null
  /\ lastParse = NoCall
  /\ lastConfig = NoConfig
  /\ lastInit = NoInit
  /\ lastGet = NoGet

\* env.configEnvironment(filePath, inferSchema), filePath being the path of
\* the file f
ConfigEnvironmentFrom(f, inferSchema) ==
  \E r \in {configEnvironment(f, inferSchema, environment,
                              environmentFrozen)} :
      /\ file' = f
      /\ environment' = r.environment
      /\ lastConfig' = [called |-> TRUE, writable |-> ~environmentFrozen,
                        err |-> r.err]
      /\ UNCHANGED <<schema, hasSchema, parsedEnvironment, environmentFrozen,
                     parsedFrozen, frozenEnvironment, frozenParsedEnvironment,
                     lastParse, lastInit, lastGet>>

\* env.configEnvironment(filePath, inferSchema) with the path of the instance's
\* one file
ConfigEnvironment(inferSchema) == ConfigEnvironmentFrom(file, inferSchema)

\* env.init(filePath) when configEnvironment throws: nothing else is done
\* (`file` is set by InitFrom)
InitAbortedByConfig(cfg) ==
  /\ environment' = cfg.environment
  /\ lastConfig' = [called |-> TRUE, writable |-> ~environmentFrozen,
                    err |-> cfg.err]
  /\ lastInit' = [called |-> TRUE,
                  writable |-> ~environmentFrozen /\ ~parsedFrozen,
                  completedBefore |-> frozenParsedEnvironment # Null,
                  schemaFree |-> ~hasSchema,
                  stage |-> "configEnvironment", err |-> cfg.err,
                  errKey |-> <<>>, check |-> "none", returned |-> Null,
                  before |-> parsedEnvironment]
  /\ UNCHANGED <<schema, hasSchema, parsedEnvironment, environmentFrozen,
                 parsedFrozen, frozenEnvironment, frozenParsedEnvironment,
                 lastParse, lastGet>>

\* env.init(filePath) from the call of parse on
InitParses(cfg) ==
  LET sch == IF hasSchema THEN schema ELSE cfg.schema
      ks == {sch[i].key : i \in 1..Len(sch)}
  IN  \E r \in {parse(Extend(cfg.environment, ks, Undefined), sch,
                      Extend(parsedEnvironment, ks, NoEntry), parsedFrozen)} :
        /\ environment' = cfg.environment
        /\ schema' = sch
        /\ hasSchema' = TRUE
        /\ parsedEnvironment' = r.parsed
        /\ lastConfig' = [called |-> TRUE, writable |-> ~environmentFrozen,
                          err |-> cfg.err]
        /\ lastInit' = [called |-> TRUE,
                        writable |-> ~environmentFrozen /\ ~parsedFrozen,
                        completedBefore |-> frozenParsedEnvironment # Null,
                        schemaFree |-> ~hasSchema,
                        stage |-> IF r.err = NoError THEN "returned"
                                  ELSE "parse",
                        err |-> r.err, errKey |-> r.errKey,
                        check |-> r.check,
                        returned |-> IF r.err = NoError
                                     THEN ObjParsedEnvironment ELSE Null,
                        before |-> parsedEnvironment]
        /\ IF r.err = NoError
           THEN /\ environmentFrozen' = TRUE
                /\ parsedFrozen' = TRUE
                /\ frozenEnvironment' = ObjectFreeze(ObjEnvironment)
                /\ frozenParsedEnvironment' = ObjectFreeze(ObjParsedEnvironment)
           ELSE UNCHANGED <<environmentFrozen, parsedFrozen,
                            frozenEnvironment, frozenParsedEnvironment>>
        /\ UNCHANGED <<lastParse, lastGet>>

\* env.init(filePath): load the file (inferring the schema when there is
\* none), parse, freeze both maps, return this.parsedEnvironment
InitFrom(f) ==
  \E cfg \in {configEnvironment(f, ~hasSchema, environment,
                                environmentFrozen)} :
      /\ file' = f
      /\ IF cfg.err # NoError THEN InitAbortedByConfig(cfg)
         ELSE InitParses(cfg)

\* env.init(filePath) with the path of the instance's one file
InitMethod == InitFrom(file)

FileNext ==
  \/ \E inferSchema \in BOOLEAN : ConfigEnvironment(inferSchema)
  \/ InitMethod
  \/ GetEnvironment
  \/ GetParsedEnvironment

FileSpec == FileInit /\ [][FileNext]_vars

(***************************************************************************)
(* The instance that is given several files, and raw maps of the caller's, *)
(* in any order: configEnvironment(path), init(path), parse(rawMap,        *)
(* schema) and the two getters.                                            *)
(***************************************************************************)
\* the files whose paths are given to configEnvironment and init
LoadFiles ==
  { MissingFile,
    FileOf(<<<<"#", " ", "c">>>>),
    FileOf(<<<<"A", "=", "1">>>>),
    FileOf(<<<<"A", "=", "x">>, <<"A", "=", "2">>>>),
    FileOf(<<<<"B", "=", "t", "r", "u", "e">>>>) }

\* the instances: new TypedEnv(), and new TypedEnv(schema) for the schemas
\* of FileSchemas in which A is a number
LoadInstances ==
  { inst \in Instances :
      inst.hasSchema =>
        /\ inst.schema[1].key = KeyA
        /\ inst.schema[1].field.type = "number" }

\* the raw maps given to parse by the caller
LoadRawMaps ==
  { EmptyMap,
    [k \in {KeyA, KeyB} |-> IF k = KeyA THEN StrV(<<"4", "2">>)
                            ELSE StrV(Str_false)] }

\* new TypedEnv(schema) or new TypedEnv(); no path has been given yet
LoadInit ==
  /\ \E inst \in LoadInstances :
        /\ schema = inst.schema
        /\ hasSchema = inst.hasSchema
  /\ file = MissingFile
  /\ environment = EmptyMap
  /\ parsedEnvironment = EmptyMap
  /\ environmentFrozen = FALSE
  /\ parsedFrozen = FALSE
  /\ frozenEnvironment = Null
  /\ frozenParsedEnvironment = Null
  /\ lastParse = NoCall
  /\ lastConfig = NoConfig
  /\ lastInit = NoInit
  /\ lastGet = NoGet

\* parse that deletes from the instance's raw map the keys it has read
ParseCall_deletesRead(rawMap) ==
  LET ks == {schema[i].key : i \in 1..Len(schema)}
  IN  \E r \in {parse(Extend(rawMap, ks, Undefined), schema,
                      Extend(parsedEnvironment, ks, NoEntry), parsedFrozen)} :
        /\ parsedEnvironment' = r.parsed
        /\ environment' = [k \in DOMAIN environment \ ks |-> environment[k]]
        /\ lastParse' = [called |-> TRUE, env |-> rawMap,
                         frozen |-> parsedFrozen,
                         before |-> parsedEnvironment, err |-> r.err,
                         errKey |-> r.errKey, check |-> r.check,
                         trace |-> r.trace]
        /\ UNCHANGED <<schema, hasSchema, environmentFrozen,
                       parsedFrozen, frozenEnvironment,
                       frozenParsedEnvironment, file, lastConfig, lastInit,
                       lastGet>>

\* env.parse(rawMap, env.schema) by the caller; `for (const key in schema)`
\* visits nothing while the schema is null
ParseCall(rawMap) ==
  LET ks == {schema[i].key : i \in 1..Len(schema)}
  IN  \E r \in {parse(Extend(rawMap, ks, Undefined), schema,
                      Extend(parsedEnvironment, ks, NoEntry), parsedFrozen)} :
        /\ parsedEnvironment' = r.parsed
        /\ lastParse' = [called |-> TRUE, env |-> rawMap,
                         frozen |-> parsedFrozen,
                         before |-> parsedEnvironment, err |-> r.err,
                         errKey |-> r.errKey, check |-> r.check,
                         trace |-> r.trace]
        /\ UNCHANGED <<schema, hasSchema, environment, environmentFrozen,
                       parsedFrozen, frozenEnvironment,
                       frozenParsedEnvironment, file, lastConfig, lastInit,
                       lastGet>>

LoadNext ==
  \/ \E f \in LoadFiles, inferSchema \in BOOLEAN :
        ConfigEnvironmentFrom(f, inferSchema)
  \/ \E f \in LoadFiles : InitFrom(f)
  \/ \E rawMap \in LoadRawMaps : ParseCall(rawMap)
  \/ GetEnvironment
  \/ GetParsedEnvironment

LoadSpec == LoadInit /\ [][LoadNext]_vars

(***************************************************************************)
(* The object kind: JSON.parse of the raw value.  A parsed value is kept   *)
(* as its JSON text without the white space between tokens, so that two    *)
(* texts of one structure are one value.                                   *)
(***************************************************************************)
\* the character at position i, "" beyond the end
CharAt(str, i) == IF i \in 1..Len(str) THEN str[i] ELSE ""

\* the first position from i on that holds no white space
SkipSpaces(str, i) ==
  IF \E j \in i..Len(str) : str[j] # " "
  THEN CHOOSE j \in i..Len(str) :
         str[j] # " " /\ \A h \in i..(j - 1) : str[h] = " "
  ELSE Len(str) + 1

\* the first position from i on that holds no digit
DigitsEnd(str, i) ==
  IF \E j \in i..Len(str) : ~IsDigit(str[j])
  THEN CHOOSE j \in i..Len(str) :
         ~IsDigit(str[j]) /\ \A h \in i..(j - 1) : IsDigit(str[h])
  ELSE Len(str) + 1

\* the position after the string whose opening quote is before i, 0 when
\* the string is not closed
JsonStringEnd(str, i) ==
  IF \E j \in i..Len(str) : str[j] = "\""
  THEN 1 + CHOOSE j \in i..Len(str) :
             str[j] = "\"" /\ \A h \in i..(j - 1) : str[h] # "\""
  ELSE 0

\* the position after the word at i, 0 when the text at i is not the word
JsonWordEnd(str, i, word) ==
  IF i + Len(word) - 1 <= Len(str) /\ SubSeq(str, i, i + Len(word) - 1) = word
  THEN i + Len(word)
  ELSE 0

\* the position after the exponent at i, if there is one; 0 when e or E is
\* not followed by digits
JsonExponentEnd(str, i) ==
  IF CharAt(str, i) \notin {"e", "E"} THEN i
  ELSE IF CharAt(str, i + 1) \in {"+", "-"}
  THEN IF IsDigit(CharAt(str, i + 2)) THEN DigitsEnd(str, i + 2) ELSE 0
  ELSE IF IsDigit(CharAt(str, i + 1)) THEN DigitsEnd(str, i + 1) ELSE 0

\* the position after the fraction at i, if there is one, and the exponent
JsonFractionEnd(str, i) ==
  IF CharAt(str, i) # "." THEN JsonExponentEnd(str, i)
  ELSE IF IsDigit(CharAt(str, i + 1))
  THEN JsonExponentEnd(str, DigitsEnd(str, i + 1))
  ELSE 0

\* the position after the digits of the number that start at i: 0 alone, or
\* digits without a leading 0
JsonIntegerEnd(str, i) ==
  IF CharAt(str, i) = "0" THEN JsonFractionEnd(str, i + 1)
  ELSE IF IsDigit(CharAt(str, i)) THEN JsonFractionEnd(str, DigitsEnd(str, i))
  ELSE 0

JsonNumberEnd(str, i) ==
  IF CharAt(str, i) = "-" THEN JsonIntegerEnd(str, i + 1)
  ELSE JsonIntegerEnd(str, i)

Str_null == <<"n","u","l","l">>

\* the position after the JSON value that starts at or after i (white space
\* skipped), 0 when there is no value there
RECURSIVE JsonValueEnd(_, _)
RECURSIVE JsonMembersEnd(_, _)
RECURSIVE JsonElementsEnd(_, _)
\* after a member or an element that ends before position v: `,` and more,
\* or the closing character
JsonAfterItem(str, v, close, inObject) ==
  IF v = 0 THEN 0
  ELSE IF CharAt(str, SkipSpaces(str, v)) = ","
  THEN IF inObject THEN JsonMembersEnd(str, SkipSpaces(str, v) + 1)
       ELSE JsonElementsEnd(str, SkipSpaces(str, v) + 1)
  ELSE IF CharAt(str, SkipSpaces(str, v)) = close
  THEN SkipSpaces(str, v) + 1
  ELSE 0

\* the value of a member whose name ends before position k
JsonMemberValue(str, k) ==
  IF k = 0 \/ CharAt(str, SkipSpaces(str, k)) # ":" THEN 0
  ELSE JsonAfterItem(str, JsonValueEnd(str, SkipSpaces(str, k) + 1), "}", TRUE)

JsonMembersEnd(str, i) ==
  IF CharAt(str, SkipSpaces(str, i)) # "\"" THEN 0
  ELSE JsonMemberValue(str, JsonStringEnd(str, SkipSpaces(str, i) + 1))

JsonElementsEnd(str, i) ==
  JsonAfterItem(str, JsonValueEnd(str, i), "]", FALSE)

\* the value whose first character is at position i
JsonValueAt(str, i) ==
  CASE CharAt(str, i) = "{" ->
         IF CharAt(str, SkipSpaces(str, i + 1)) = "}"
         THEN SkipSpaces(str, i + 1) + 1
         ELSE JsonMembersEnd(str, i + 1)
    [] CharAt(str, i) = "[" ->
         IF CharAt(str, SkipSpaces(str, i + 1)) = "]"
         THEN SkipSpaces(str, i + 1) + 1
         ELSE JsonElementsEnd(str, i + 1)
    [] CharAt(str, i) = "\"" -> JsonStringEnd(str, i + 1)
    [] CharAt(str, i) = "t" -> JsonWordEnd(str, i, Str_true)
    [] CharAt(str, i) = "f" -> JsonWordEnd(str, i, Str_false)
    [] CharAt(str, i) = "n" -> JsonWordEnd(str, i, Str_null)
    [] CharAt(str, i) = "-" \/ IsDigit(CharAt(str, i)) -> JsonNumberEnd(str, i)
    [] OTHER -> 0

JsonValueEnd(str, i) == JsonValueAt(str, SkipSpaces(str, i))

\* the text is one JSON value, white space around it apart
IsJson(str) ==
  /\ JsonValueEnd(str, 1) # 0
  /\ SkipSpaces(str, JsonValueEnd(str, 1)) > Len(str)

\* position i of the text is within a string: the quotes before it are odd
\* in number
InJsonString(str, i) ==
  Cardinality({j \in 1..(i - 1) : str[j] = "\""}) % 2 = 1

\* the text without the white space between its tokens
RECURSIVE JsonCompact(_, _)
JsonCompact(str, i) ==
  IF i > Len(str) THEN <<>>
  ELSE IF str[i] = " " /\ ~InJsonString(str, i) THEN JsonCompact(str, i + 1)
  ELSE <<str[i]>> \o JsonCompact(str, i + 1)

\* a value that JSON.parse returned
JsonV(text) == [t |-> "json", s |-> text, n |-> 0, b |-> FALSE]

\* JSON.parse(text): the value, or SyntaxError
JsonParse(text) ==
  IF IsJson(text) THEN [err |-> NoError, value |-> JsonV(JsonCompact(text, 1))]
  ELSE [err |-> "SyntaxError", value |-> Undefined]

\* the parser of the object kind: a present raw value is parsed as JSON, and
\* a SyntaxError becomes InvalidJSONError; an absent value gives the default
parseObject(key, field, value, parsed, frozen) ==
  IF value = Undefined THEN AssignParsed(parsed, frozen, key, field.default)
  ELSE IF JsonParse(value.s).err # NoError
  THEN [err |-> "InvalidJSONError", parsed |-> parsed]
  ELSE AssignParsed(parsed, frozen, key, JsonParse(value.s).value)

(***************************************************************************)
(* Shorthand schemas.  An entry of the schema given to the constructor is  *)
(* a bare literal, {required: true}, {required: true, choices} or a full   *)
(* descriptor; the schema normalizer turns each into a field before parse  *)
(* runs over it.                                                           *)
(***************************************************************************)
Literal(v) ==
  [shape |-> "literal", value |-> v, choices |-> <<>>, field |-> Undefined]
RequiredOnly ==
  [shape |-> "required", value |-> Undefined, choices |-> <<>>,
   field |-> Undefined]
RequiredChoices(list) ==
  [shape |-> "requiredChoices", value |-> Undefined, choices |-> list,
   field |-> Undefined]
FullDescriptor(f) ==
  [shape |-> "full", value |-> Undefined, choices |-> <<>>, field |-> f]

\* typeof v for a string, number or boolean
TypeOf(v) == IF v.t = "nan" THEN "number" ELSE v.t

\* normalize(entry): a full descriptor as it is; a bare literal gives its
\* type and is the default; {required: true, choices} has the type of the
\* first choice; {required: true} is a required string
normalize(entry) ==
  CASE entry.shape = "full" -> entry.field
    [] entry.shape = "literal" ->
         Field(TypeOf(entry.value), FALSE, entry.value, FALSE, <<>>,
               Undefined, Undefined, "none", "none", Undefined, Undefined)
    [] entry.shape = "requiredChoices" ->
         Field(TypeOf(entry.choices[1]), TRUE, Undefined, TRUE,
               entry.choices, Undefined, Undefined, "none", "none",
               Undefined, Undefined)
    [] entry.shape = "required" ->
         Field("string", TRUE, Undefined, FALSE, <<>>, Undefined, Undefined,
               "none", "none", Undefined, Undefined)

\* the schema with every entry normalized, keys and order kept
NormalizeSchema(entries) ==
  [i \in 1..Len(entries) |->
     [key |-> entries[i].key, field |-> normalize(entries[i].entry)]]

KeyHOST == <<"H","O","S","T">>
KeyNAME == <<"N","A","M","E">>
Str_localhost == <<"l","o","c","a","l","h","o","s","t">>
Str_svc == <<"s","v","c">>

\* {HOST: 'localhost', PORT: 3000, NAME: {required: true}}
ExampleShorthand ==
  << [key |-> KeyHOST, entry |-> Literal(StrV(Str_localhost))],
     [key |-> KeyPORT, entry |-> Literal(NumV(3000))],
     [key |-> KeyNAME, entry |-> RequiredOnly] >>

\* the entries given to the one-key schemas
ShorthandEntries ==
  { Literal(StrV(<<"a","b">>)), Literal(StrV(<<>>)),
    Literal(NumV(42)), Literal(NumV(0)),
    Literal(BoolV(TRUE)), Literal(BoolV(FALSE)),
    RequiredOnly,
    RequiredChoices(<<StrV(<<"a">>), StrV(<<"a","b">>)>>),
    RequiredChoices(<<NumV(1), NumV(42)>>),
    RequiredChoices(<<BoolV(TRUE)>>),
    FullDescriptor(Field("number", TRUE, Undefined, FALSE, <<>>, Undefined,
                         Undefined, "none", "none", NumV(1), Undefined)) }

ShorthandSchemas ==
  {ExampleShorthand}
  \cup { <<[key |-> KeyA, entry |-> e]>> : e \in ShorthandEntries }

\* the raw maps given to parse with a shorthand schema
ShorthandRawMaps(entries) ==
  IF entries = ExampleShorthand
  THEN { EmptyMap,
         [k \in {KeyNAME} |-> StrV(Str_svc)],
         [k \in {KeyNAME, KeyPORT} |->
            IF k = KeyNAME THEN StrV(Str_svc) ELSE StrV(<<"8","0">>)],
         [k \in {KeyHOST, KeyPORT} |->
            IF k = KeyHOST THEN StrV(<<"h">>) ELSE StrV(<<"x">>)] }
  ELSE {EmptyMap} \cup { [k \in {KeyA} |-> StrV(x)] : x \in RawStrings }

\* new TypedEnv(schema) with a shorthand schema
ShorthandInit ==
  /\ schema \in ShorthandSchemas
  /\ hasSchema = TRUE
  /\ file = MissingFile
  /\ environment = EmptyMap
  /\ parsedEnvironment = EmptyMap
  /\ environmentFrozen = FALSE
  /\ parsedFrozen = FALSE
  /\ frozenEnvironment = Null
  /\ frozenParsedEnvironment = Null
  /\ lastParse = NoCall
  /\ lastConfig = NoConfig
  /\ lastInit = NoInit
  /\ lastGet = NoGet

\* env.parse(rawMap, schema) with the shorthand schema: each entry is
\* normalized, then the fields are parsed as those of a full schema
ParseShorthand(rawMap) ==
  LET sch == NormalizeSchema(schema)
      ks == {schema[i].key : i \in 1..Len(schema)}
  IN  \E r \in {parse(Extend(rawMap, ks, Undefined), sch,
                      Extend(parsedEnvironment, ks, NoEntry), parsedFrozen)} :
        /\ parsedEnvironment' = r.parsed
        /\ lastParse' = [called |-> TRUE, env |-> rawMap,
                         frozen |-> parsedFrozen,
                         before |-> parsedEnvironment, err |-> r.err,
                         errKey |-> r.errKey, check |-> r.check,
                         trace |-> r.trace]
        /\ UNCHANGED <<schema, hasSchema, environment, environmentFrozen,
                       parsedFrozen, frozenEnvironment,
                       frozenParsedEnvironment, file, lastConfig, lastInit,
                       lastGet>>

ShorthandNext ==
  \/ \E rawMap \in ShorthandRawMaps(schema) : ParseShorthand(rawMap)
  \/ GetParsedEnvironment

ShorthandSpec == ShorthandInit /\ [][ShorthandNext]_vars

(***************************************************************************)
(* The instance whose schema declares one field of the object kind.        *)
(***************************************************************************)
\* raw values that are JSON texts: objects, arrays, a number, a string,
\* true and null
JsonTexts ==
  { <<"{","\"","a","\"",":","1","}">>,
    <<" ","{"," ","\"","a","\""," ",":"," ","1"," ","}"," ">>,
    <<"{","}">>,
    <<"[","1",","," ","2",","," ","3",","," ","\"","t","e","s","t",
      "\"","]">>,
    <<"{","\"","u","\"",":"," ","{","\"","n","\"",":"," ","\"","J",
      "\"",","," ","\"","p","\"",":"," ","{","\"","t","\"",":",
      " ","\"","d","\"","}","}","}">>,
    <<"3","0">>,
    <<"\"","a","\"">>,
    <<"t","r","u","e">>,
    <<"n","u","l","l">> }

\* raw values that are not JSON texts: truncated, unquoted value or key,
\* trailing comma, empty, a bare word, a closing brace too many
NotJsonTexts ==
  { <<"{","\"","a","\"",":","1">>,
    <<"{","\"","k","e","y","\"",":"," ","v","a","l","u","e",","," ",
      "\"","m","\"",":"," ","t","r","u","e","}">>,
    <<"{","\"","k","e","y","\"",":"," ","\"","v","a","l","u","e","\"">>,
    <<"{","a",":","1","}">>,
    <<"[","1",",","]">>,
    <<>>,
    <<"a","b","c">>,
    <<"{","\"","a","\"",":","1","}","}">> }

\* {theme: 'light'}, the default of an optional object field
DefaultObject ==
  JsonV(<<"{","\"","t","h","e","m","e","\"",":","\"","l","i","g","h","t",
        "\"","}">>)

ObjectSchemas ==
  { <<[key |-> KeyA,
       field |-> Field("object", r, d, FALSE, <<>>, Undefined, Undefined,
                       "none", "none", Undefined, Undefined)]>> :
      r \in BOOLEAN, d \in {Undefined, DefaultObject} }

\* the raw maps given to parse: the key absent, or one of the texts
ObjectRawMaps ==
  {EmptyMap}
  \cup { [k \in {KeyA} |-> StrV(x)] : x \in JsonTexts \cup NotJsonTexts }

\* one field of the loop of parse, the field being of the object kind:
\* validateRequiredField, the parser of the kind, validateEnumChoices,
\* validateAdvancedConstraints
ParseObjectField(key, field, value, parsed, frozen) ==
  IF validateRequiredField(field, value)
  THEN [err |-> "MissingRequiredFieldError", parsed |-> parsed]
  ELSE IF parseObject(key, field, value, parsed, frozen).err # NoError
  THEN parseObject(key, field, value, parsed, frozen)
  ELSE IF validateEnumChoices(key, field,
            parseObject(key, field, value, parsed, frozen).parsed)
  THEN [err |-> "InvalidEnumError",
        parsed |-> parseObject(key, field, value, parsed, frozen).parsed]
  ELSE [err |-> validateAdvancedConstraints(key, field,
                  parseObject(key, field, value, parsed, frozen).parsed).err,
        parsed |-> parseObject(key, field, value, parsed, frozen).parsed]

\* new TypedEnv(schema) with a schema of one object field
ObjectInit ==
  /\ schema \in ObjectSchemas
  /\ hasSchema = TRUE
  /\ file = MissingFile
  /\ environment = EmptyMap
  /\ parsedEnvironment = EmptyMap
  /\ environmentFrozen = FALSE
  /\ parsedFrozen = FALSE
  /\ frozenEnvironment = Null
  /\ frozenParsedEnvironment = Null
  /\ lastParse = NoCall
  /\ lastConfig = NoConfig
  /\ lastInit = NoInit
  /\ lastGet = NoGet

\* env.parse(rawMap, schema) for the schema of one object field
ParseObject(rawMap) ==
  \E r \in {ParseObjectField(schema[1].key, schema[1].field,
                              Extend(rawMap, {schema[1].key},
                                     Undefined)[schema[1].key],
                              Extend(parsedEnvironment, {schema[1].key},
                                     NoEntry),
                              parsedFrozen)} :
      /\ parsedEnvironment' = r.parsed
      /\ lastParse' = [called |-> TRUE, env |-> rawMap,
                       frozen |-> parsedFrozen,
                       before |-> parsedEnvironment, err |-> r.err,
                       errKey |-> IF r.err = NoError THEN <<>>
                                  ELSE schema[1].key,
                       check |-> "none", trace |-> <<>>]
      /\ UNCHANGED <<schema, hasSchema, environment, environmentFrozen,
                     parsedFrozen, frozenEnvironment,
                     frozenParsedEnvironment, file, lastConfig, lastInit,
                     lastGet>>

ObjectNext ==
  \/ \E rawMap \in ObjectRawMaps : ParseObject(rawMap)
  \/ GetParsedEnvironment

ObjectSpec == ObjectInit /\ [][ObjectNext]_vars

(***************************************************************************)
(* The variant with nested schemas.  An entry of a schema is a field or a  *)
(* group of entries; parse runs over the flattened schema and init()       *)
(* returns the result with the nesting of the schema.                      *)
(***************************************************************************)
UpperChar(c) == IF PosIn(c, LowerLetters) = 0 THEN c
                ELSE UpperLetters[PosIn(c, LowerLetters)]

\* String.prototype.toUpperCase
ToUpperCase(str) == [i \in 1..Len(str) |-> UpperChar(str[i])]

\* a field of a nested schema and a group of entries (key, node)
LeafNode(f) == [kind |-> "field", field |-> f, children |-> <<>>]
GroupNode(entries) == [kind |-> "group", field |-> Undefined, children |-> entries]

\* isBaseField(field): an object whose type is 'string', 'number' or
\* 'boolean'
isBaseField(node) == node.kind = "field" /\ node.field.type \in {"string", "number", "boolean"}

\* isNestedSchema(field): an object that is no base field and has a property
\* that is a base field or a nested schema
RECURSIVE isNestedSchema(_)
isNestedSchema(node) ==
  /\ node.kind = "group"
  /\ \E i \in 1..Len(node.children) :
        \/ isBaseField(node.children[i].node)
        \/ isNestedSchema(node.children[i].node)

\* an entry that is neither, read as a field: a group has no `type`,
\* `required` or `default`
AsBaseField(node) ==
  IF node.kind = "field" THEN node.field
  ELSE Field("undefined", FALSE, Undefined, FALSE, <<>>, Undefined,
             Undefined, "none", "none", Undefined, Undefined)

\* prefix ? `${prefix}_${key.toUpperCase()}` : key.toUpperCase()
FullKey(prefix, key) ==
  IF prefix # <<>> THEN prefix \o <<"_">> \o ToUpperCase(key)
  ELSE ToUpperCase(key)

NodeOf(entries, key) ==
  entries[CHOOSE i \in 1..Len(entries) : entries[i].key = key].node

\* Object.assign(target, source), from the i-th key of source on
RECURSIVE ObjectAssign(_, _, _)
ObjectAssign(target, source, i) ==
  IF i > Len(source) THEN target
  ELSE ObjectAssign(PutField(target, ForInKeys(source)[i],
                             FieldOf(source, ForInKeys(source)[i])),
                    source, i + 1)

\* flattenSchema(schema, prefix): the loop from the i-th key on
RECURSIVE FlattenFrom(_, _, _, _)
FlattenFrom(entries, i, prefix, flattened) ==
  IF i > Len(entries) THEN flattened
  ELSE FlattenFrom(entries, i + 1, prefix,
         IF isBaseField(NodeOf(entries, ForInKeys(entries)[i]))
         THEN PutField(flattened, FullKey(prefix, ForInKeys(entries)[i]),
                       NodeOf(entries, ForInKeys(entries)[i]).field)
         ELSE IF isNestedSchema(NodeOf(entries, ForInKeys(entries)[i]))
         THEN ObjectAssign(flattened,
                FlattenFrom(NodeOf(entries, ForInKeys(entries)[i]).children,
                            1, FullKey(prefix, ForInKeys(entries)[i]), <<>>),
                1)
         ELSE PutField(flattened, FullKey(prefix, ForInKeys(entries)[i]),
                       AsBaseField(NodeOf(entries, ForInKeys(entries)[i]))))

flattenSchema(entries, prefix) == FlattenFrom(entries, 1, prefix, <<>>)

\* constructNestedResult(schema, prefix): for each key the parsed value of
\* the flattened key of a base field, or the result of the entry's own
\* properties (a field of an unsupported type never gets here: parse has
\* thrown for it)
RECURSIVE constructNestedResult(_, _, _)
constructNestedResult(entries, prefix, parsed) ==
  [i \in 1..Len(entries) |->
     IF isBaseField(NodeOf(entries, ForInKeys(entries)[i]))
     THEN [key |-> ForInKeys(entries)[i], leaf |-> TRUE,
           value |-> IF FullKey(prefix, ForInKeys(entries)[i]) \in DOMAIN parsed
                     THEN Read(parsed, FullKey(prefix, ForInKeys(entries)[i]))
                     ELSE Undefined,
           children |-> <<>>]
     ELSE [key |-> ForInKeys(entries)[i], leaf |-> FALSE, value |-> Undefined,
           children |->
             constructNestedResult(
               NodeOf(entries, ForInKeys(entries)[i]).children,
               FullKey(prefix, ForInKeys(entries)[i]), parsed)]]

(***************************************************************************)
(* Vocabulary of the properties: what the last call of parse did.          *)
(*                                                                         *)
(* Once getParsedEnvironment() has frozen the parsed map, every write of   *)
(* parse throws TypeError.  Properties about what a call writes or which   *)
(* validation error it reports are therefore stated for the calls made     *)
(* while the map could be written to (WritableCall).                       *)
(***************************************************************************)
SchemaKeys == {schema[i].key : i \in 1..Len(schema)}

\* the keys the last call of parse reached
ReachedKeys == {lastParse.trace[i].key : i \in 1..Len(lastParse.trace)}

\* the calls the last parse made for key k
StepsOf(k) ==
  IF k \in ReachedKeys
  THEN lastParse.trace[CHOOSE i \in 1..Len(lastParse.trace) :
                         lastParse.trace[i].key = k].steps
  ELSE <<>>

\* the last parse threw error e for key k
Threw(k, e) == lastParse.err = e /\ lastParse.errKey = k

\* the last parse was made on a parsed map that could be written to
WritableCall == lastParse.called /\ ~lastParse.frozen

\* the coercer of key k returned in the last parse (it wrote its value)
Coerced(k) == Len(StepsOf(k)) >= 3

\* the raw value given to the last parse for key k
RawOf(k) == lastParse.env[k]

\* the value v is a member of the list
IsMember(v, list) == \E i \in 1..Len(list) : list[i] = v /\ v.t # "nan"

ScalarTypes == {"string", "number", "boolean"}

(***************************************************************************)
(* C1.  Choice membership is exact: for a string, number or boolean field  *)
(* with a non-empty `choices` list whose value was coerced, parse raises   *)
(* no InvalidEnumError for the field when the coerced value is a member of *)
(* the list (whatever the member: false, 0 and '' included) and raises     *)
(* InvalidEnumError when it is no member.                                  *)
(***************************************************************************)
C1_ChoiceMembershipExact ==
  WritableCall =>
    \A k \in ReachedKeys :
      LET f == FieldOf(schema, k)
          v == Read(parsedEnvironment, k)
      IN  (f.type \in ScalarTypes /\ f.hasChoices /\ f.choices # <<>>
           /\ Coerced(k))
          => /\ IsMember(v, f.choices) => ~Threw(k, "InvalidEnumError")
             /\ ~IsMember(v, f.choices) => Threw(k, "InvalidEnumError")

(***************************************************************************)
(* C2.  parse throws MissingRequiredFieldError for a field it reaches if   *)
(* and only if the raw value is absent, the field is required and it has   *)
(* no default; the error is thrown before the coercer is called.           *)
(***************************************************************************)
C2_MissingIffAbsentRequiredNoDefault ==
  lastParse.called =>
    \A k \in ReachedKeys :
      LET f == FieldOf(schema, k)
      IN  /\ Threw(k, "MissingRequiredFieldError")
               <=> (RawOf(k) = Undefined /\ f.required = TRUE
                    /\ f.default = Undefined)
          /\ Threw(k, "MissingRequiredFieldError")
               => /\ StepsOf(k) = <<"validateRequiredField">>
                  /\ parsedEnvironment[k] = lastParse.before[k]

C2_Witness ==
  /\ lastParse.called
  /\ lastParse.err = "MissingRequiredFieldError"
  /\ \E k \in ReachedKeys :
       /\ ~Threw(k, "MissingRequiredFieldError")
       /\ RawOf(k) = Undefined
       /\ FieldOf(schema, k).default # Undefined

(***************************************************************************)
(* C3.  Required implies present-or-defaulted: when parse returns, every   *)
(* field that is required or has a default has a defined entry in the      *)
(* parsed map.                                                             *)
(***************************************************************************)
C3_RequiredOrDefaultedIsDefined ==
  (lastParse.called /\ lastParse.err = NoError) =>
    \A k \in SchemaKeys :
      LET f == FieldOf(schema, k)
      IN  (f.required = TRUE \/ f.default # Undefined)
            => (parsedEnvironment[k] # NoEntry
                /\ parsedEnvironment[k] # Undefined)

C3_Witness ==
  /\ lastParse.called /\ lastParse.err = NoError
  /\ \E k \in SchemaKeys : FieldOf(schema, k).required
                           /\ FieldOf(schema, k).default = Undefined
  /\ \E k \in SchemaKeys : /\ FieldOf(schema, k).default # Undefined
                           /\ RawOf(k) = Undefined
  /\ \A k \in SchemaKeys : parsedEnvironment[k] # Undefined

(***************************************************************************)
(* C4.  Default decision table: for every field whose coercer returned,    *)
(* the entry of the parsed map is the field's default (undefined when it   *)
(* has none) if the raw value is absent, and the coercion of the raw value *)
(* if it is present, whatever the default.                                 *)
(***************************************************************************)
\* the coercion of a present raw string for a field of the given type
CoercionOf(type, raw) ==
  CASE type = "string" -> StrV(raw)
    [] type = "number" -> ToNumber(raw)
    [] type = "boolean" -> BoolV(Trim(ToLowerCase(raw)) = Str_true)
    [] OTHER -> Undefined

BooleanCases ==
  { k \in ReachedKeys : /\ FieldOf(schema, k).type = "boolean"
                        /\ RawOf(k) # Undefined
                        /\ Len(StepsOf(k)) >= 2 }

NumberCases ==
  { k \in ReachedKeys : /\ FieldOf(schema, k).type = "number"
                        /\ RawOf(k) # Undefined
                        /\ Len(StepsOf(k)) >= 2 }

C6_NumberCoercion ==
  WritableCall =>
    \A k \in NumberCases :
      LET raw == RawOf(k).s
      IN  /\ Threw(k, "InvalidTypeError") <=> ToNumber(raw) = NaNV
          /\ ToNumber(raw) = NaNV
               => (~Coerced(k) /\ parsedEnvironment[k] = lastParse.before[k])
          /\ ToNumber(raw) # NaNV
               => (Coerced(k) /\ parsedEnvironment[k] = ToNumber(raw))
          /\ raw = <<"4","2">> => parsedEnvironment[k] = NumV(42)
          /\ raw = <<"a","b">> => Threw(k, "InvalidTypeError")

\* a raw value that is not a number was rejected, and the entry kept the 42
\* that an earlier call had coerced from "42"
C6_Witness ==
  /\ WritableCall
  /\ \E k \in NumberCases :
       /\ Threw(k, "InvalidTypeError")
       /\ lastParse.before[k] = NumV(42)
       /\ parsedEnvironment[k] = NumV(42)

(***************************************************************************)
(* C7.  Fixed validation order within one field: required presence, type   *)
(* coercion, choices, then the constraints of the kind (string: minLength, *)
(* maxLength, pattern, customValidator; number: min, max,                  *)
(* customValidator); the error thrown for a field is that of the first     *)
(* check in this order that rejects, and no error when none rejects.  A    *)
(* string that violates a length bound and the pattern reports             *)
(* InvalidStringLengthError; a value that is no member of the choices and  *)
(* violates a constraint reports InvalidEnumError.                         *)
(***************************************************************************)
\* the value the checks after coercion look at
ValueChecked(f, raw) ==
  IF raw = Undefined THEN f.default ELSE CoercionOf(f.type, raw.s)

RejectsRequired(f, raw) ==
  raw = Undefined /\ f.required /\ f.default = Undefined

\* the error of the coercion, NoError when it succeeds
CoercionError(f, raw) ==
  CASE f.type = "string" -> NoError
    [] f.type = "number" ->
         IF ValueChecked(f, raw) = NaNV THEN "InvalidTypeError" ELSE NoError
    [] f.type = "boolean" ->
         IF /\ raw # Undefined /\ raw.s # <<>>
            /\ ToLowerCase(Trim(raw.s)) \notin {Str_true, Str_false}
         THEN "InvalidBooleanError" ELSE NoError
    [] OTHER -> "UnsupportedTypeError"

\* the choices check as the code makes it: it rejects a value that is no
\* member, and a member that is falsy (C1)
RejectsChoices(f, v) ==
  f.hasChoices /\ (~IsMember(v, f.choices) \/ ~Truthy(v))

TooShort(f, v) == f.minLength # Undefined /\ Len(v.s) < f.minLength.n
TooLong(f, v) == f.maxLength # Undefined /\ Len(v.s) > f.maxLength.n
PatternMismatch(f, v) == f.pattern # "none" /\ ~RegExpTest(f.pattern, v.s)
ValidatorRejects(f, v) ==
  f.customValidator # "none" /\ ~ApplyValidator(f.customValidator, v)
BelowMin(f, v) == f.min # Undefined /\ v.n < f.min.n
AboveMax(f, v) == f.max # Undefined /\ v.n > f.max.n

\* the error of the first check, in the claimed order, that rejects
FirstRejection(f, raw) ==
  LET v == ValueChecked(f, raw)
  IN  IF RejectsRequired(f, raw) THEN "MissingRequiredFieldError"
      ELSE IF CoercionError(f, raw) # NoError THEN CoercionError(f, raw)
      ELSE IF RejectsChoices(f, v) THEN "InvalidEnumError"
      ELSE IF v = Undefined THEN NoError
      ELSE IF f.type = "string" /\ (TooShort(f, v) \/ TooLong(f, v))
           THEN "InvalidStringLengthError"
      ELSE IF f.type = "string" /\ PatternMismatch(f, v)
           THEN "InvalidPatternError"
      ELSE IF f.type = "number" /\ (BelowMin(f, v) \/ AboveMax(f, v))
           THEN "InvalidNumberRangeError"
      ELSE IF ValidatorRejects(f, v) THEN "CustomValidationError"
      ELSE NoError

CallOrder == <<"validateRequiredField", "parseAndSetValue",
               "validateEnumChoices", "validateAdvancedConstraints">>

C7_FixedValidationOrder ==
  WritableCall =>
    \A k \in ReachedKeys :
      LET f == FieldOf(schema, k)
          raw == RawOf(k)
          v == ValueChecked(f, raw)
          e == FirstRejection(f, raw)
      IN  /\ StepsOf(k) = SubSeq(CallOrder, 1, Len(StepsOf(k)))
          /\ e # NoError => Threw(k, e)
          /\ e = NoError => (lastParse.errKey # k /\ StepsOf(k) = CallOrder)
          /\ (f.type = "string" /\ Coerced(k) /\ v # Undefined
              /\ (TooShort(f, v) \/ TooLong(f, v)) /\ PatternMismatch(f, v)
              /\ ~RejectsChoices(f, v))
               => Threw(k, "InvalidStringLengthError")
          /\ (Coerced(k) /\ f.hasChoices /\ ~IsMember(v, f.choices)
              /\ v # Undefined
              /\ \/ (f.type = "string"
                     /\ (TooShort(f, v) \/ TooLong(f, v)
                         \/ PatternMismatch(f, v) \/ ValidatorRejects(f, v)))
                 \/ (f.type = "number"
                     /\ (BelowMin(f, v) \/ AboveMax(f, v)
                         \/ ValidatorRejects(f, v))))
               => Threw(k, "InvalidEnumError")

\* a string that is too short and does not match the pattern, in a field
\* that also has a validator, was reported as a length violation
C7_Witness ==
  /\ WritableCall
  /\ \E k \in ReachedKeys :
       LET f == FieldOf(schema, k)
           v == parsedEnvironment[k]
       IN  /\ f.type = "string" /\ Coerced(k) /\ ~f.hasChoices
           /\ TooShort(f, v) /\ PatternMismatch(f, v)
           /\ f.customValidator # "none"
           /\ Threw(k, "InvalidStringLengthError")

(***************************************************************************)
(* C8.  Number range bounds are inclusive: a coerced number v that reaches *)
(* the range check is accepted by it iff (min undefined or v >= min) and   *)
(* (max undefined or v <= max); outside it parse throws                    *)
(* InvalidNumberRangeError, also when the customValidator would reject v.  *)
(***************************************************************************)
\* the number fields whose value reached validateNumberConstraints
RangeCases ==
  { k \in ReachedKeys : /\ FieldOf(schema, k).type = "number"
                        /\ Len(StepsOf(k)) = 4
                        /\ parsedEnvironment[k] # Undefined }

InRange(f, v) ==
  /\ f.min = Undefined \/ v.n >= f.min.n
  /\ f.max = Undefined \/ v.n <= f.max.n

C8_RangeInclusive ==
  WritableCall =>
    /\ \A k \in RangeCases :
         LET f == FieldOf(schema, k)
             v == parsedEnvironment[k]
         IN  /\ Threw(k, "InvalidNumberRangeError") <=> ~InRange(f, v)
             /\ (InRange(f, v) /\ ValidatorRejects(f, v))
                  => Threw(k, "CustomValidationError")
             /\ (InRange(f, v) /\ ~ValidatorRejects(f, v))
                  => lastParse.errKey # k
    /\ lastParse.err = "InvalidNumberRangeError"
         => lastParse.errKey \in RangeCases

\* a value equal to both min and max was accepted
C8_Witness ==
  /\ WritableCall
  /\ \E k \in RangeCases :
       LET f == FieldOf(schema, k)
           v == parsedEnvironment[k]
       IN  /\ f.min = v /\ f.max = v
           /\ lastParse.err = NoError

(***************************************************************************)
(* C9.  Errors leave no rejected value in the result: after parse throws   *)
(* a choices or constraint error for field k, the parsed map holds no      *)
(* entry for k written by that call (the entry is as it was before it).    *)
(***************************************************************************)
ValidationErrors ==
  {"InvalidEnumError", "InvalidStringLengthError", "InvalidPatternError",
   "InvalidNumberRangeError", "CustomValidationError"}

C9_NoRejectedValueInResult ==
  (WritableCall /\ lastParse.err \in ValidationErrors)
    => parsedEnvironment[lastParse.errKey] = lastParse.before[lastParse.errKey]

(***************************************************************************)
(* C10.  Fail-fast in declared order.                                      *)
(***************************************************************************)
\* the keys the last parse reached, in the order it reached them
ReachedOrder == [i \in 1..Len(lastParse.trace) |-> lastParse.trace[i].key]

PositionIn(keys, k) == CHOOSE i \in 1..Len(keys) : keys[i] = k

\* what a call that processes the keys in the order `order` and stops at the
\* first field that is rejected leaves behind: it reached a prefix of the
\* order; every field before the last reached one was accepted and has its
\* value written; the error is the first rejection of the last reached
\* field, or parse returned after the last key; and the entry of every key
\* that was not reached is as it was before the call
FailFastIn(order) ==
  LET n == Len(lastParse.trace)
  IN  /\ n <= Len(order)
      /\ ReachedOrder = SubSeq(order, 1, n)
      /\ \A i \in 1..n :
           LET k == order[i]
               f == FieldOf(schema, k)
           IN  IF i < n \/ lastParse.err = NoError
               THEN /\ FirstRejection(f, RawOf(k)) = NoError
                    /\ parsedEnvironment[k] = ValueChecked(f, RawOf(k))
               ELSE /\ lastParse.errKey = k
                    /\ lastParse.err = FirstRejection(f, RawOf(k))
      /\ lastParse.err = NoError => n = Len(order)
      /\ \A i \in (n + 1)..Len(order) :
           parsedEnvironment[order[i]] = lastParse.before[order[i]]

\* C10 as claimed: the order is the declared (insertion) order of the schema,
\* whatever the key names
C10_FailFastDeclaredOrder ==
  WritableCall => FailFastIn(DeclaredKeys(schema))

\* key a is enumerated before key b: among keys that are canonical array
\* indices the smaller number comes first, an array index comes before any
\* other key, and among the other keys the one declared first comes first
EnumeratedBefore(a, b) ==
  IF IsArrayIndex(a) /\ IsArrayIndex(b)
  THEN DecimalValue(a) < DecimalValue(b)
  ELSE IF IsArrayIndex(a) # IsArrayIndex(b) THEN IsArrayIndex(a)
  ELSE PositionIn(DeclaredKeys(schema), a) < PositionIn(DeclaredKeys(schema), b)

\* C10 as amended: the order is the declared order for key names that are
\* not canonical array indices; keys that are ("2", "10") are processed
\* before all others, in ascending numeric order
C10_FailFastEnumerationOrder ==
  WritableCall =>
    \E order \in [1..Len(schema) -> SchemaKeys] :
      /\ \A i, j \in 1..Len(schema) :
           i < j => EnumeratedBefore(order[i], order[j])
      /\ FailFastIn(order)
      /\ (\A k \in SchemaKeys : ~IsArrayIndex(k))
           => order = DeclaredKeys(schema)

\* keys declared as B then A: the field of B was accepted and written, then
\* the field of A was rejected
C10_Witness ==
  /\ WritableCall
  /\ Len(schema) = 2
  /\ \A k \in SchemaKeys : ~IsArrayIndex(k)
  /\ schema[1].key = KeyB
  /\ lastParse.errKey = schema[2].key
  /\ lastParse.err # NoError
  /\ parsedEnvironment[schema[1].key] # lastParse.before[schema[1].key]

\* a further case of C10: the first declared field was rejected and the
\* entry of the second, which an earlier call had written, was left alone
C10_WitnessLaterUntouched ==
  /\ WritableCall
  /\ Len(schema) = 2
  /\ \A k \in SchemaKeys : ~IsArrayIndex(k)
  /\ lastParse.errKey = schema[1].key
  /\ lastParse.err # NoError
  /\ parsedEnvironment[schema[2].key] # NoEntry
  /\ parsedEnvironment[schema[2].key]
       # ValueChecked(schema[2].field, RawOf(schema[2].key))

(***************************************************************************)
(* Vocabulary of the properties of the instance that reads a file          *)
(* (FileSpec).                                                             *)
(*                                                                         *)
(* Once a getter or a completed init has frozen a map, every later write   *)
(* to it throws TypeError.  Properties about what a call of init or        *)
(* configEnvironment loads or returns are therefore stated for the calls   *)
(* made while both maps could be written to.                               *)
(***************************************************************************)
\* the last call of init was made on an instance whose maps were writable
WritableInit == lastInit.called /\ lastInit.writable

\* the last call of init returned
InitReturned == lastInit.called /\ lastInit.err = NoError

\* the last call of init was made after an earlier call had completed
Reinit == lastInit.called /\ lastInit.completedBefore

\* the keys that have an entry in a map
EntriesOf(m) == {k \in DOMAIN m : m[k] # NoEntry}

\* C11: on an instance whose first init() completed, a second init() with the
\* same file and schema completes without error and returns a result that is
\* structurally equal to the first (the parsed map as the first call left it)
C11_ReinitIdempotent ==
  Reinit =>
    /\ lastInit.err = NoError
    /\ lastInit.returned = ObjParsedEnvironment
    /\ parsedEnvironment = lastInit.before

\* C12: a getter returns a frozen object whenever it is called; once init()
\* has completed, every later call of a getter returns one and the same
\* reference, the one init stored; and the object init() returns is the
\* frozen parsed map that getParsedEnvironment() returns
C12_ReadOnlyViews ==
  /\ lastGet.getter # "none" => lastGet.frozen
  /\ lastGet.environmentRefs \subseteq {frozenEnvironment}
  /\ lastGet.parsedRefs \subseteq {frozenParsedEnvironment}
  /\ (lastInit.called /\ lastInit.stage = "returned") =>
        /\ lastInit.returned = frozenParsedEnvironment
        /\ lastInit.returned = ObjParsedEnvironment
        /\ parsedFrozen /\ environmentFrozen

\* init() returned and both getters have been called since
C12_Witness ==
  /\ lastInit.called /\ lastInit.stage = "returned"
  /\ lastGet.environmentRefs = {ObjEnvironment}
  /\ lastGet.parsedRefs = {lastInit.returned}
  /\ lastGet.frozen

\* C13: the enum check is skipped when it does not apply: a field that
\* declares `choices` raises no InvalidEnumError when its coerced value is
\* undefined (optional, no default, absent raw value), and none for any value
\* when its `choices` list is empty
C13_EnumCheckSkipped ==
  WritableCall =>
    \A k \in ReachedKeys :
      LET f == FieldOf(schema, k)
      IN  (f.type \in ScalarTypes /\ f.hasChoices /\ Coerced(k)) =>
            /\ Read(parsedEnvironment, k) = Undefined
                 => ~Threw(k, "InvalidEnumError")
            /\ f.choices = <<>> => ~Threw(k, "InvalidEnumError")

(***************************************************************************)
(* C14 and C15: the line decoder, as the two properties state it.          *)
(***************************************************************************)
\* a call of configEnvironment (by itself or within init) has returned
Loaded == lastConfig.called /\ lastConfig.err = NoError

CharsOf(str) == {str[i] : i \in 1..Len(str)}

\* the line yields a pair: trimmed, it is not empty, does not start with `#`
\* and contains `=`
YieldsPair(line) ==
  /\ Trim(line) # <<>>
  /\ Head(Trim(line)) # "#"
  /\ "=" \in CharsOf(Trim(line))

\* the trimmed text before and after the first `=` of a line that yields a
\* pair
KeyText(line) ==
  LET t == Trim(line)
      p == CHOOSE i \in 1..Len(t) : t[i] = "=" /\ "=" \notin CharsOf(SubSeq(t, 1, i - 1))
  IN  Trim(SubSeq(t, 1, p - 1))

ValueText(line) ==
  LET t == Trim(line)
      p == CHOOSE i \in 1..Len(t) : t[i] = "=" /\ "=" \notin CharsOf(SubSeq(t, 1, i - 1))
  IN  Trim(SubSeq(t, p + 1, Len(t)))

\* the keys of the lines of the file that yield a pair
FileKeys ==
  IF file.exists
  THEN {KeyText(file.lines[i]) : i \in {j \in 1..Len(file.lines) : YieldsPair(file.lines[j])}}
  ELSE {}

\* the last line of the file that yields a pair for key k
LastLineFor(k) ==
  file.lines[CHOOSE i \in 1..Len(file.lines) :
               /\ YieldsPair(file.lines[i]) /\ KeyText(file.lines[i]) = k
               /\ \A j \in (i + 1)..Len(file.lines) :
                    ~(YieldsPair(file.lines[j]) /\ KeyText(file.lines[j]) = k)]

\* the text begins and ends with the same quote character
SameQuoteAtBothEnds(text) ==
  /\ text # <<>>
  /\ Head(text) \in {"\"", "'"}
  /\ text[Len(text)] = Head(text)

C15_QuoteStripping ==
  /\ Loaded =>
       \A k \in FileKeys :
         LET text == ValueText(LastLineFor(k))
         IN  IF SameQuoteAtBothEnds(text)
             THEN text = <<Head(text)>> \o environment[k].s \o <<Head(text)>>
             ELSE environment[k] = StrV(text)
  /\ (WritableInit /\ file = FileOf(<<<<"A","=","\"","4","5","6","\"">>>>)
      /\ schema[1].field.type = "number" /\ schema[1].key = KeyA)
       => /\ lastInit.err = NoError
          /\ parsedEnvironment[KeyA] = NumV(456)

\* the last init was made on a writable instance constructed with the schema
\* that declares the one key k
InitWithSchemaOn(k) ==
  /\ WritableInit /\ ~lastInit.schemaFree
  /\ Len(schema) = 1 /\ schema[1].key = k

\* C16: a trailing `# ...` comment is not part of the value: under the README
\* schema, init() over the line `PORT=80  # Too low, should be 1000-65535`
\* throws InvalidNumberRangeError for the received value 80, and over the
\* line `API_KEY=short_key  # Too short, needs 32-64 characters` it throws
\* InvalidStringLengthError for the 9-character value short_key
C16_TrailingCommentStripped ==
  /\ (InitWithSchemaOn(KeyPORT) /\ file = FileOf(<<PortLine>>))
       => /\ lastInit.err = "InvalidNumberRangeError"
          /\ lastInit.errKey = KeyPORT
          /\ environment[KeyPORT] = StrV(<<"8", "0">>)
  /\ (InitWithSchemaOn(KeyAPI_KEY) /\ file = FileOf(<<ApiKeyLine>>))
       => /\ lastInit.err = "InvalidStringLengthError"
          /\ lastInit.errKey = KeyAPI_KEY
          /\ environment[KeyAPI_KEY] =
               StrV(<<"s", "h", "o", "r", "t", "_", "k", "e", "y">>)

(***************************************************************************)
(* C17 to C19: init() on an instance constructed without a schema.         *)
(***************************************************************************)
\* the last init was made on a writable instance that had no schema, and it
\* loaded the file
SchemaFreeInit ==
  /\ WritableInit /\ lastInit.schemaFree
  /\ lastInit.stage # "configEnvironment"

\* the kind the properties give to an unquoted value: boolean if and only if
\* the lower-cased value is "true" or "false"; otherwise number if and only
\* if the value is not empty and converts to a finite number; otherwise
\* string
KindOfUnquoted(value) ==
  IF ToLowerCase(value) \in {Str_true, Str_false} THEN "boolean"
  ELSE IF value # <<>> /\ ToNumber(value).t = "number" THEN "number"
  ELSE "string"

\* C17: the schema that a schema-free init infers gives every key whose
\* value is not quoted the kind of that value: boolean iff it is "true" or
\* "false" whatever the case, else number iff it is not empty and converts
\* to a finite number, else string
C17_InferenceOfUnquoted ==
  SchemaFreeInit =>
    \A k \in FileKeys :
      LET text == ValueText(LastLineFor(k))
      IN  ~SameQuoteAtBothEnds(text)
            => FieldOf(schema, k).type = KindOfUnquoted(text)

\* `A=Infinity` has been read: the value is not finite and A is a string
C17_Witness ==
  /\ SchemaFreeInit
  /\ file = FileOf(<<<<"A", "=">> \o Str_Infinity>>)
  /\ FieldOf(schema, KeyA).type = "string"
  /\ parsedEnvironment[KeyA] = StrV(Str_Infinity)

\* C18: quoting pins the kind: in a schema-free init every key whose value
\* is quoted in the file is inferred as a string, whatever is between the
\* quotes, and the result holds that text as a string for it
C18_QuotingPinsType ==
  SchemaFreeInit =>
    \A k \in FileKeys :
      LET text == ValueText(LastLineFor(k))
      IN  SameQuoteAtBothEnds(text) =>
            /\ FieldOf(schema, k).type = "string"
            /\ Len(text) >= 2 =>
                 /\ lastInit.stage = "returned"
                 /\ parsedEnvironment[k] = StrV(SubSeq(text, 2, Len(text) - 1))

\* `A="123"` has been read: A is the string 123
C18_Witness ==
  /\ SchemaFreeInit
  /\ file = FileOf(<<<<"A", "=", "\"", "1", "2", "3", "\"">>>>)
  /\ FieldOf(schema, KeyA).type = "string"
  /\ parsedEnvironment[KeyA] = StrV(<<"1", "2", "3">>)

FreshParsedEnvironment == [k \in Keys |-> NoEntry]

\* this step is a call of parse that follows a call of parse with the same
\* raw map, nothing having frozen the result map in between
RepeatedParse ==
  /\ lastParse.called
  /\ parsedFrozen = lastParse.frozen
  /\ lastParse'.called
  /\ lastParse'.env = lastParse.env
  /\ lastParse'.before = parsedEnvironment
  /\ parsedFrozen' = parsedFrozen
  /\ lastGet' = lastGet

\* C20: two calls of parse with the same raw map and schema end the same
\* way, whether they are consecutive calls on one instance or calls on two
\* fresh instances: both return, with equal result maps, or both throw the
\* same error for the same field
C20_ParseIdempotent ==
  [][RepeatedParse =>
       \E fresh \in {parse(lastParse.env, schema, FreshParsedEnvironment,
                           FALSE)} :
         /\ lastParse'.err = lastParse.err
         /\ lastParse'.errKey = lastParse.errKey
         /\ lastParse.err = NoError => parsedEnvironment' = parsedEnvironment
         /\ ~lastParse.frozen =>
              /\ fresh.err = lastParse.err
              /\ fresh.errKey = lastParse.errKey
              /\ fresh.err = NoError => fresh.parsed = parsedEnvironment
     ]_vars

\* parse has returned on an instance whose result map already held the
\* values of an earlier call; a second call with that raw map is enabled
C20_Witness ==
  /\ lastParse.called /\ ~lastParse.frozen /\ ~parsedFrozen
  /\ lastParse.err = NoError
  /\ lastParse.before = parsedEnvironment
  /\ \E k \in Keys : parsedEnvironment[k] \notin {NoEntry, Undefined}

\* parseBoolean of the nested variant: only the exact strings 'true' and
\* 'false' are boolean values
nestedParseBoolean(key, field, value, parsed, frozen) ==
  IF Truthy(value) /\ value.s # Str_true /\ value.s # Str_false
  THEN [err |-> "InvalidBooleanError", parsed |-> parsed]
  ELSE AssignParsed(parsed, frozen, key,
                    IF value # Undefined
                    THEN BoolV(ToLowerCase(value.s) = Str_true)
                    ELSE field.default)

\* parseAndSetValue of the nested variant
nestedParseAndSetValue(key, field, value, parsed, frozen) ==
  CASE field.type = "string" -> parseString(key, field, value, parsed, frozen)
    [] field.type = "number" -> parseNumber(key, field, value, parsed, frozen)
    [] field.type = "boolean" ->
         nestedParseBoolean(key, field, value, parsed, frozen)
    [] OTHER -> [err |-> "UnsupportedTypeError", parsed |-> parsed]

\* the body of the loop of parse of the nested variant for one flattened key
nestedParseField(key, field, value, parsed, frozen) ==
  IF validateRequiredField(field, value)
  THEN [err |-> "MissingRequiredFieldError", check |-> "required",
        parsed |-> parsed]
  ELSE
    LET set == nestedParseAndSetValue(key, field, value, parsed, frozen)
    IN  IF set.err # NoError
        THEN [err |-> set.err, check |-> "coerce", parsed |-> set.parsed]
        ELSE IF validateEnumChoices(key, field, set.parsed)
        THEN [err |-> "InvalidEnumError", check |-> "choices",
              parsed |-> set.parsed]
        ELSE
          LET adv == validateAdvancedConstraints(key, field, set.parsed)
          IN  [err |-> adv.err, check |-> adv.check, parsed |-> set.parsed]

RECURSIVE nestedParseFrom(_, _, _, _, _, _)
nestedParseFrom(keys, i, env, flattenedSchema, parsed, frozen) ==
  IF i > Len(keys)
  THEN [err |-> NoError, errKey |-> <<>>, check |-> "none", parsed |-> parsed]
  ELSE LET key == keys[i]
           r == nestedParseField(key, FieldOf(flattenedSchema, key), env[key],
                                 parsed, frozen)
       IN  IF r.err # NoError
           THEN [err |-> r.err, errKey |-> key, check |-> r.check,
                 parsed |-> r.parsed]
           ELSE nestedParseFrom(keys, i + 1, env, flattenedSchema, r.parsed,
                                frozen)

\* parse(environment, schema) of the nested variant: the loop over the keys
\* of flattenSchema(schema)
nestedParse(env, entries, parsed, frozen) ==
  nestedParseFrom(ForInKeys(flattenSchema(entries, <<>>)), 1, env,
                  flattenSchema(entries, <<>>), parsed, frozen)

Entry(key, node) == [key |-> key, node |-> node]

PlainField(type, required, default) ==
  Field(type, required, default, FALSE, <<>>, Undefined, Undefined, "none",
        "none", Undefined, Undefined)

\* the nested schemas: a group of three fields, a field three levels deep,
\* two paths with one flattened key, a field at the top, a group in a group
\* beside a field with a limit, a field of an unsupported type, and a group
\* without entries
NestedSchemas ==
  { <<Entry(<<"d","b">>, GroupNode(
        <<Entry(<<"h","o","s","t">>, LeafNode(PlainField("string", TRUE, Undefined))),
          Entry(<<"p","o","r","t">>, LeafNode(PlainField("number", FALSE, NumV(2)))),
          Entry(<<"s","s","l">>, LeafNode(PlainField("boolean", TRUE, Undefined)))>>))>>,
    <<Entry(<<"a">>, GroupNode(
        <<Entry(<<"b">>, GroupNode(
            <<Entry(<<"c">>, LeafNode(PlainField("number", TRUE, Undefined)))>>))>>))>>,
    <<Entry(<<"a">>, GroupNode(
        <<Entry(<<"b">>, LeafNode(PlainField("number", TRUE, Undefined)))>>)),
      Entry(<<"a","_","b">>, LeafNode(PlainField("string", FALSE, Undefined)))>>,
    <<Entry(<<"p","o","r","t">>, LeafNode(PlainField("number", TRUE, Undefined)))>>,
    <<Entry(<<"a">>, GroupNode(
        <<Entry(<<"b">>, LeafNode(
            Field("number", TRUE, NumV(0), FALSE, <<>>, Undefined, Undefined,
                  "none", "none", NumV(1), Undefined))),
          Entry(<<"d","b">>, GroupNode(
            <<Entry(<<"s","s","l">>, LeafNode(PlainField("boolean", FALSE, BoolV(TRUE))))>>))>>))>>,
    <<Entry(<<"d","b">>, GroupNode(
        <<Entry(<<"s","s","l">>, LeafNode(PlainField("Object", FALSE, Undefined)))>>))>>,
    <<Entry(<<"a">>, GroupNode(<<>>))>> }

\* the lines of the files beside a nested instance
NestedLines ==
  { <<"D","B","_","H","O","S","T","=","h">>,
    <<"D","B","_","P","O","R","T","=","1">>,
    <<"D","B","_","P","O","R","T","=","x">>,
    <<"D","B","_","S","S","L","=","t","r","u","e">>,
    <<"D","B","_","S","S","L","=","T","R","U","E">>,
    <<"A","_","B","_","C","=","1">>,
    <<"A","_","B","=","1">>,
    <<"A","_","B","=","x">>,
    <<"A","_","D","B","_","S","S","L","=","f","a","l","s","e">>,
    <<"P","O","R","T","=","1">>,
    <<"p","o","r","t","=","1">> }

NestedFiles ==
  {MissingFile}
  \cup { FileOf(<<l>>) : l \in NestedLines }
  \cup { FileOf(<<<<"D","B","_","H","O","S","T","=","h">>, l>>) :
           l \in NestedLines }
  \cup { FileOf(<<<<"D","B","_","H","O","S","T","=","h">>,
                  <<"D","B","_","P","O","R","T","=","1">>, l>>) :
           l \in NestedLines }

\* new TypedEnv(schema) with a nested schema, beside the file '.env'
NestedInitial ==
  /\ schema \in NestedSchemas
  /\ hasSchema = TRUE
  /\ file \in NestedFiles
  /\ environment = EmptyMap
  /\ parsedEnvironment = EmptyMap
  /\ environmentFrozen = FALSE
  /\ parsedFrozen = FALSE
  /\ frozenEnvironment = Null
  /\ frozenParsedEnvironment = Null
  /\ lastParse = NoCall
  /\ lastConfig = NoConfig
  /\ lastInit = NoInit
  /\ lastGet = NoGet

FlattenedKeys(entries) ==
  {flattenSchema(entries, <<>>)[i].key :
     i \in 1..Len(flattenSchema(entries, <<>>))}

\* env.init() of the nested variant from the call of parse on; nothing is
\* frozen
NestedInitParses(cfg) ==
  \E r \in {nestedParse(Extend(cfg.environment, FlattenedKeys(schema),
                               Undefined),
                        schema,
                        Extend(parsedEnvironment, FlattenedKeys(schema),
                               NoEntry),
                        parsedFrozen)} :
    /\ environment' = cfg.environment
    /\ parsedEnvironment' = r.parsed
    /\ lastConfig' = [called |-> TRUE, writable |-> ~environmentFrozen,
                      err |-> cfg.err]
    /\ lastInit' = [called |-> TRUE,
                    writable |-> ~environmentFrozen /\ ~parsedFrozen,
                    completedBefore |-> FALSE,
                    schemaFree |-> FALSE,
                    stage |-> IF r.err = NoError THEN "returned" ELSE "parse",
                    err |-> r.err, errKey |-> r.errKey, check |-> r.check,
                    returned |-> IF r.err = NoError
                                 THEN constructNestedResult(schema, <<>>,
                                                            r.parsed)
                                 ELSE Null,
                    before |-> parsedEnvironment]
    /\ UNCHANGED <<schema, hasSchema, file, environmentFrozen, parsedFrozen,
                   frozenEnvironment, frozenParsedEnvironment, lastParse,
                   lastGet>>

\* env.init() of the nested variant: configEnvironment(), parse, then the
\* nested result
NestedInit ==
  \E cfg \in {configEnvironment(file, FALSE, environment, environmentFrozen)} :
      IF cfg.err # NoError
      THEN file' = file /\ InitAbortedByConfig(cfg)
      ELSE NestedInitParses(cfg)

\* the getters of the nested variant freeze the map on every call
NestedNext ==
  \/ NestedInit
  \/ GetEnvironment
  \/ GetParsedEnvironment

NestedSpec == NestedInitial /\ [][NestedNext]_vars

(***************************************************************************)
(* C21: the file does not exist.                                           *)
(***************************************************************************)
\* the keys of the schema that are required and have no default, in the
\* order in which parse visits the keys
RequiredWithoutDefault(sch) ==
  SelectSeq(ForInKeys(sch),
            LAMBDA k : FieldOf(sch, k).required
                         /\ FieldOf(sch, k).default = Undefined)

\* C21: a file that does not exist is not an error: configEnvironment and
\* init throw nothing on its account and the raw map gets no key; init goes
\* on to parse, which gives every field its default and throws
\* MissingRequiredFieldError only for a required field without default
C21_MissingFileNotAnError ==
  ~file.exists =>
    /\ DOMAIN environment = {}
    /\ lastConfig.called => lastConfig.err = NoError
    /\ lastInit.called => lastInit.stage # "configEnvironment"
    /\ WritableInit =>
         LET missing == RequiredWithoutDefault(schema)
         IN  IF missing = <<>>
             THEN /\ lastInit.err = NoError
                  /\ \A i \in 1..Len(schema) :
                       parsedEnvironment[schema[i].key]
                         = schema[i].field.default
             ELSE /\ lastInit.err = "MissingRequiredFieldError"
                  /\ lastInit.errKey = Head(missing)

\* init without the file has returned and A holds its default
C21_Witness ==
  /\ ~file.exists /\ WritableInit /\ InitReturned
  /\ ~lastInit.schemaFree
  /\ parsedEnvironment[KeyA] = StrV(<<"d">>)

(***************************************************************************)
(* C22: several files loaded into one instance.                            *)
(***************************************************************************)
\* the keys of the lines of file f that yield a pair
KeysOf(f) ==
  IF f.exists
  THEN {KeyText(f.lines[i]) : i \in {j \in 1..Len(f.lines) : YieldsPair(f.lines[j])}}
  ELSE {}

\* the value text of the last line of file f that yields a pair for key k
LastValueOf(f, k) ==
  ValueText(f.lines[CHOOSE i \in 1..Len(f.lines) :
                      /\ YieldsPair(f.lines[i]) /\ KeyText(f.lines[i]) = k
                      /\ \A j \in (i + 1)..Len(f.lines) :
                           ~(YieldsPair(f.lines[j])
                               /\ KeyText(f.lines[j]) = k)])

\* C22: loaded values accumulate: no step removes a key of the raw map, and
\* a load leaves the value of every key that its file does not define; a key
\* that the file loaded last defines holds the value of the last line for it;
\* and the init that returns has parsed the raw map as accumulated: every
\* schema key that some load defined, earlier loads included, has in the
\* result the coercion of its raw value
C22_LoadedValuesAccumulate ==
  [][/\ \A k \in DOMAIN environment :
          /\ k \in DOMAIN environment'
          /\ k \notin KeysOf(file') => environment'[k] = environment[k]
     /\ (lastConfig'.called /\ lastConfig'.err = NoError) =>
          \A k \in KeysOf(file') :
            /\ k \in DOMAIN environment'
            /\ environment'[k] = StrV(LastValueOf(file', k))
     /\ (lastInit'.called /\ lastInit'.writable /\ lastInit'.err = NoError) =>
          \A i \in 1..Len(schema') :
            LET k == schema'[i].key
            IN  k \in DOMAIN environment' =>
                  parsedEnvironment'[k] =
                    CoercionOf(schema'[i].field.type, environment'[k].s)
    ]_vars

\* init() has returned for a path without file (the load within it was the
\* last one on the writable raw map), on the instance whose schema requires
\* the number A: the 2 that it parsed is the value of the last line of the
\* file `A=x`, `A=2`, loaded by an earlier configEnvironment
C22_Witness ==
  /\ WritableInit /\ InitReturned /\ ~lastInit.schemaFree
  /\ lastConfig.writable /\ ~file.exists
  /\ KeyA \in DOMAIN environment /\ environment[KeyA] = StrV(<<"2">>)
  /\ parsedEnvironment[KeyA] = NumV(2)

(***************************************************************************)
(* C23: shorthand schema entries.                                          *)
(***************************************************************************)
\* what a present raw string gives under a kind: the string itself; the
\* number it converts to, InvalidTypeError when that is NaN; true or false
\* for the texts true and false in any case and for the empty text,
\* InvalidBooleanError for any other text
CoercionByKind(kind, raw) ==
  CASE kind = "string" -> [err |-> NoError, value |-> StrV(raw)]
    [] kind = "number" ->
         IF ToNumber(raw).t = "nan"
         THEN [err |-> "InvalidTypeError", value |-> Undefined]
         ELSE [err |-> NoError, value |-> ToNumber(raw)]
    [] kind = "boolean" ->
         IF raw # <<>> /\ ToLowerCase(Trim(raw)) \notin {Str_true, Str_false}
         THEN [err |-> "InvalidBooleanError", value |-> Undefined]
         ELSE [err |-> NoError,
               value |-> BoolV(ToLowerCase(Trim(raw)) = Str_true)]

\* what the claim says of a shorthand entry and a raw value (Undefined when
\* absent): a bare literal is a field of the literal's type with the literal
\* as default; {required: true} is a required string; {required: true,
\* choices} is a required field of the type of the first choice whose value
\* must be one of the choices
ShorthandOutcome(entry, raw) ==
  CASE entry.shape = "literal" ->
         IF raw = Undefined THEN [err |-> NoError, value |-> entry.value]
         ELSE CoercionByKind(TypeOf(entry.value), raw.s)
    [] entry.shape = "required" ->
         IF raw = Undefined
         THEN [err |-> "MissingRequiredFieldError", value |-> Undefined]
         ELSE [err |-> NoError, value |-> StrV(raw.s)]
    [] entry.shape = "requiredChoices" ->
         IF raw = Undefined
         THEN [err |-> "MissingRequiredFieldError", value |-> Undefined]
         ELSE IF CoercionByKind(TypeOf(entry.choices[1]), raw.s).err # NoError
         THEN CoercionByKind(TypeOf(entry.choices[1]), raw.s)
         ELSE IF \E i \in 1..Len(entry.choices) :
                   entry.choices[i]
                     = CoercionByKind(TypeOf(entry.choices[1]), raw.s).value
         THEN CoercionByKind(TypeOf(entry.choices[1]), raw.s)
         ELSE [err |-> "InvalidEnumError", value |-> Undefined]

\* the entry of key k in the shorthand schema of the instance
EntryOf(k) == schema[CHOOSE i \in 1..Len(schema) : schema[i].key = k].entry

\* the raw value that the last parse was given for key k
GivenRaw(k) ==
  IF k \in DOMAIN lastParse.env THEN lastParse.env[k] ELSE Undefined

\* the keys for which the claim says the last parse throws, in the order of
\* the schema
ShorthandFailures ==
  SelectSeq(ForInKeys(schema),
            LAMBDA k : ShorthandOutcome(EntryOf(k), GivenRaw(k)).err # NoError)

\* the last parse was made with a schema of shorthand entries only, on an
\* instance whose result map was writable
ShorthandCall ==
  /\ WritableCall
  /\ \A i \in 1..Len(schema) : schema[i].entry.shape # "full"

ObjectCall == WritableCall /\ schema[1].field.type = "object"

C25_UnsupportedAlwaysReported ==
  WritableCall =>
    \A k \in ReachedKeys :
      FieldOf(schema, k).type \notin ScalarTypes =>
        /\ lastParse.err = "UnsupportedTypeError"
        /\ lastParse.errKey = k
        /\ parsedEnvironment[k] = lastParse.before[k]

(***************************************************************************)
(* C26: parse and the raw map.                                             *)
(***************************************************************************)
\* the raw map as a load of file f alone leaves it
RawMapAfterLoad(f) ==
  {configEnvironment(f, inferSchema, environment, environmentFrozen).environment :
     inferSchema \in BOOLEAN}

\* C26: parse never changes the raw map: a call of parse, whether it returns
\* or throws, leaves the instance's raw map with the keys and the strings it
\* had, and the raw map it was given as it was given; the parse within
\* init() leaves the raw map as the load of init's file left it
C26_ParseLeavesRawMap ==
  [][/\ lastParse' # lastParse =>
          /\ environment' = environment
          /\ lastParse'.env \in LoadRawMaps
     /\ lastInit' # lastInit => environment' \in RawMapAfterLoad(file')
     /\ \A k \in DOMAIN environment' : environment'[k].t = "string"
    ]_vars

\* parse has thrown on an instance whose raw map holds loaded values and is
\* not frozen
C26_Witness ==
  /\ lastParse.called /\ lastParse.err # NoError
  /\ ~environmentFrozen
  /\ DOMAIN environment = {KeyA, KeyB}

\* the fields of a nested schema with their flattened keys, depth first in
\* the order of for...in
RECURSIVE LeavesOf(_, _)
LeavesOf(entries, prefix) ==
  IF entries = <<>> THEN <<>>
  ELSE LET key == ForInKeys(entries)[1]
           node == NodeOf(entries, key)
           rest == SelectSeq(entries, LAMBDA en : en.key # key)
       IN  (IF node.kind = "field"
            THEN <<[key |-> FullKey(prefix, key), field |-> node.field]>>
            ELSE LeavesOf(node.children, FullKey(prefix, key)))
           \o LeavesOf(rest, prefix)

\* the flat pass over the one field of a leaf under its flattened key, on
\* the raw map the instance has loaded
FlatPass(leaf) ==
  parse(Extend(environment, {leaf.key}, Undefined),
        <<[key |-> leaf.key, field |-> leaf.field]>>,
        [k \in {leaf.key} |-> NoEntry], FALSE)

\* the object with the nesting of the schema whose leaves are the values of
\* the flat passes
RECURSIVE NestingOf(_, _)
NestingOf(entries, prefix) ==
  [i \in 1..Len(entries) |->
     LET key == ForInKeys(entries)[i]
         node == NodeOf(entries, key)
     IN  IF node.kind = "field"
         THEN [key |-> key, leaf |-> TRUE,
               value |-> Read(FlatPass([key |-> FullKey(prefix, key),
                                        field |-> node.field]).parsed,
                              FullKey(prefix, key)),
               children |-> <<>>]
         ELSE [key |-> key, leaf |-> FALSE, value |-> Undefined,
               children |-> NestingOf(node.children, FullKey(prefix, key))]]

FailingLeaves ==
  {i \in 1..Len(LeavesOf(schema, <<>>)) :
     FlatPass(LeavesOf(schema, <<>>)[i]).err # NoError}

FirstFailingLeaf ==
  LeavesOf(schema, <<>>)[CHOOSE i \in FailingLeaves :
                           \A j \in FailingLeaves : i <= j]

\* an init() that loaded its file and could write the parsed map
NestedInitRan ==
  /\ lastInit.called
  /\ lastInit.writable
  /\ lastInit.stage # "configEnvironment"

\* C27: in the nested variant init() does what the flat pass does for each
\* leaf under its flattened key UPPER(k1)_..._UPPER(kn): it throws the error
\* of the first leaf whose flat pass throws, naming the flattened key (a
\* required leaf that is absent: MissingRequiredFieldError), and otherwise
\* returns an object with the nesting of the schema whose leaves are the
\* values of the flat passes, defaults included.
C27_NestedFaithful ==
  NestedInitRan =>
    IF FailingLeaves = {}
    THEN /\ lastInit.stage = "returned"
         /\ lastInit.returned = NestingOf(schema, <<>>)
    ELSE /\ lastInit.err = FlatPass(FirstFailingLeaf).err
         /\ lastInit.errKey = FirstFailingLeaf.key

\* the value v meets every constraint the field declares for its kind
Satisfies(field, v) ==
  /\ field.hasChoices =>
       \E i \in 1..Len(field.choices) : StrictEquals(field.choices[i], v)
  /\ field.customValidator # "none" => ApplyValidator(field.customValidator, v)
  /\ field.type = "string" =>
       /\ field.minLength # Undefined => Len(v.s) >= field.minLength.n
       /\ field.maxLength # Undefined => Len(v.s) <= field.maxLength.n
       /\ field.pattern # "none" => RegExpTest(field.pattern, v.s)
  /\ field.type = "number" =>
       /\ field.min # Undefined => v.n >= field.min.n
       /\ field.max # Undefined => v.n <= field.max.n

ParseReturned == lastParse.called /\ lastParse.err = NoError

\* C28: when parse has returned normally, every field of the schema whose
\* value in the result is defined meets all the constraints it declares
\* (choices, min/max, minLength/maxLength, pattern, customValidator), whether
\* the value came from the raw map or from the default; so parse has not
\* returned normally when a field without a raw value has a default that
\* violates one of its constraints.
C28_ResultMeetsConstraints ==
  ParseReturned =>
    \A i \in 1..Len(schema) :
      LET key == schema[i].key
          field == schema[i].field
      IN  /\ Read(parsedEnvironment, key) # Undefined
               => Satisfies(field, Read(parsedEnvironment, key))
          /\ (lastParse.env[key] = Undefined /\ field.default # Undefined)
               => /\ Read(parsedEnvironment, key) = field.default
                  /\ Satisfies(field, field.default)

\* parse has returned a default that met an upper limit and a validator
C28_Witness ==
  /\ ParseReturned
  /\ \E i \in 1..Len(schema) :
       /\ lastParse.env[schema[i].key] = Undefined
       /\ schema[i].field.default # Undefined
       /\ schema[i].field.max # Undefined
       /\ schema[i].field.customValidator # "none"
       /\ Read(parsedEnvironment, schema[i].key) = schema[i].field.default

\* the value an empty raw string is coerced to
EmptyCoerced(type) ==
  CASE type = "string" -> StrV(<<>>)
    [] type = "number" -> NumV(0)
    [] type = "boolean" -> BoolV(FALSE)

\* the key of a string, number or boolean field that the last call of parse
\* reached with the empty string as raw value, the parsed map being writable
GivenEmpty(i) ==
  /\ lastParse.called
  /\ ~lastParse.frozen
  /\ schema[i].key \in ReachedKeys
  /\ schema[i].field.type \in {"string", "number", "boolean"}
  /\ lastParse.env[schema[i].key] = StrV(<<>>)

\* C29: a raw value that is present but empty is not taken for an absent
\* one: parse does not throw MissingRequiredFieldError, InvalidTypeError or
\* InvalidBooleanError for the key, the default is not used, and the value
\* stored for the key is '' for a string field, 0 for a number field and
\* false for a boolean field.
C29_EmptyIsPresent ==
  \A i \in 1..Len(schema) :
    GivenEmpty(i) =>
      /\ lastParse.errKey = schema[i].key =>
           lastParse.err \notin {"MissingRequiredFieldError",
                                 "InvalidTypeError", "InvalidBooleanError"}
      /\ Read(parsedEnvironment, schema[i].key)
           = EmptyCoerced(schema[i].field.type)

\* parse has returned 0 for a required number field without default that
\* was given ''
C29_Witness ==
  /\ ParseReturned
  /\ \E i \in 1..Len(schema) :
       /\ GivenEmpty(i)
       /\ schema[i].field.type = "number"
       /\ schema[i].field.required
       /\ schema[i].field.default = Undefined
       /\ Read(parsedEnvironment, schema[i].key) = NumV(0)

\* the properties of a parsed map with their values
ContentOf(m) == [k \in EntriesOf(m) |-> m[k]]

\* C30: a frozen map never changes again.  getEnvironment() and a completed
\* init() freeze the raw map, getParsedEnvironment() and a completed init()
\* freeze the parsed map; from then on every configEnvironment, parse and
\* init leaves the contents of the frozen map as they are, the map stays
\* frozen, a load that finds a pair for a frozen raw map throws, and a parse
\* that has a field to store into a frozen parsed map throws.
C30_FrozenMapsStay ==
  [][/\ lastGet'.getter = "getEnvironment" => environmentFrozen'
     /\ lastGet'.getter = "getParsedEnvironment" => parsedFrozen'
     /\ lastInit'.stage = "returned" => environmentFrozen' /\ parsedFrozen'
     /\ environmentFrozen =>
          /\ environmentFrozen'
          /\ environment' = environment
          /\ (lastConfig' # lastConfig \/ file' # file) =>
               (KeysOf(file') # {} => lastConfig'.err = "TypeError")
     /\ parsedFrozen =>
          /\ parsedFrozen'
          /\ ContentOf(parsedEnvironment') = ContentOf(parsedEnvironment)
          /\ (lastParse' # lastParse /\ Len(lastParse'.trace) > 0) =>
               lastParse'.err # NoError
          /\ (lastInit' # lastInit /\ Len(schema') > 0) =>
               lastInit'.stage # "returned"]_vars

\* after a completed init() that loaded and parsed a value, a load of
\* another pair and a parse of another value have both thrown TypeError
C30_Witness ==
  /\ lastInit.stage = "returned"
  /\ environmentFrozen /\ parsedFrozen
  /\ environment # EmptyMap
  /\ EntriesOf(parsedEnvironment) # {}
  /\ lastConfig.called /\ ~lastConfig.writable
  /\ lastConfig.err = "TypeError"
  /\ lastParse.called /\ lastParse.frozen
  /\ lastParse.err = "TypeError"
====
